---------------------------- MODULE Spec2Model ----------------------------
(***************************************************************************)
(* A model of pyneuroml/runners.py: the engine dispatcher run_lems_with,   *)
(* the batch runner run_multiple_lems_with, the jNeuroML engine functions  *)
(* with run_jneuroml, and reload_saved_data.                               *)
(*                                                                         *)
(* Python values are modelled as strings ("True", "False", "Unbound", ...) *)
(* or records; Python str objects that the code takes apart (function      *)
(* names, engine names) are sequences of one-character strings.            *)
(***************************************************************************)
EXTENDS Integers, Sequences, FiniteSets, TLC

VARIABLES
    \* run_lems_with
    d_pc, d_engine, d_i, d_found, d_retval, d_called, d_result,
    \* run_multiple_lems_with
    b_pc, b_sims, b_parallel, b_i, b_results, b_jobs, b_done, b_log, b_ret,
    \* the jNeuroML engine functions run_lems_with_jneuroml*
    r_pc, r_fn, r_args, r_argv, r_argv0, r_clock, r_post_args, r_t_run, r_success,
    r_output_string, r_exec, r_reload, r_trace, r_result,
    r_syspath, r_environ0, r_environ, r_calls,
    \* reload_saved_data
    rl_pc, rl_in, rl_sim, rl_fs, rl_fs0, rl_k, rl_traces, rl_events,
    rl_loaded, rl_result,
    \* run_lems_with_eden
    e_pc, e_args, e_env, e_results, e_log, e_result,
    \* generate_sim_scripts_in_folder
    g_pc, g_in, g_env, g_cwd, g_tdir, g_dirs, g_copied, g_k, g_moved, g_result,
    \* run_jneuroml_with_realtime_output and
    \* execute_command_in_dir_with_realtime_output
    x_pc, x_in, x_child, x_lines, x_int, x_trace, x_inner, x_result,
    \* plot_2D and the plot_interactive_3D engines
    p_pc, p_in, p_opt, p_k, p_drawn, p_color, p_lim, p_out, p_result,
    \* get_frustrum_surface
    f_pc, f_in, f_out

dispVars  == <<d_pc, d_engine, d_i, d_found, d_retval, d_called, d_result>>
batchVars == <<b_pc, b_sims, b_parallel, b_i, b_results, b_jobs, b_done, b_log, b_ret>>
runVars   == <<r_pc, r_fn, r_args, r_argv, r_argv0, r_clock, r_post_args, r_t_run,
               r_success, r_output_string, r_exec, r_reload, r_trace, r_result,
               r_syspath, r_environ0, r_environ, r_calls>>
reloadVars == <<rl_pc, rl_in, rl_sim, rl_fs, rl_fs0, rl_k, rl_traces, rl_events,
                rl_loaded, rl_result>>
edenVars  == <<e_pc, e_args, e_env, e_results, e_log, e_result>>
genVars   == <<g_pc, g_in, g_env, g_cwd, g_tdir, g_dirs, g_copied, g_k, g_moved, g_result>>
rtVars    == <<x_pc, x_in, x_child, x_lines, x_int, x_trace, x_inner, x_result>>
plotVars  == <<p_pc, p_in, p_opt, p_k, p_drawn, p_color, p_lim, p_out, p_result>>
frusVars  == <<f_pc, f_in, f_out>>
vars      == <<dispVars, batchVars, runVars, reloadVars, edenVars, genVars, rtVars,
               plotVars, frusVars>>

\* what the steps of one function leave alone: the state of the others
otherThanDisp   == <<batchVars, runVars, reloadVars, edenVars, genVars, rtVars, plotVars,
                    frusVars>>
otherThanBatch  == <<dispVars, runVars, reloadVars, edenVars, genVars, rtVars, plotVars,
                    frusVars>>
otherThanRun    == <<dispVars, batchVars, reloadVars, edenVars, genVars, rtVars, plotVars,
                    frusVars>>
otherThanReload == <<dispVars, batchVars, runVars, edenVars, genVars, rtVars, plotVars,
                    frusVars>>
otherThanEden   == <<dispVars, batchVars, runVars, reloadVars, genVars, rtVars, plotVars,
                    frusVars>>
otherThanGen    == <<dispVars, batchVars, runVars, reloadVars, edenVars, rtVars, plotVars,
                    frusVars>>
otherThanRt     == <<dispVars, batchVars, runVars, reloadVars, edenVars, genVars, plotVars,
                    frusVars>>
otherThanPlot   == <<dispVars, batchVars, runVars, reloadVars, edenVars, genVars, rtVars,
                    frusVars>>
otherThanFrus   == <<dispVars, batchVars, runVars, reloadVars, edenVars, genVars, rtVars,
                    plotVars>>

(***************************************************************************)
(* Python str helpers                                                      *)
(***************************************************************************)

\* str.startswith(prefix)
startswith(s, prefix) ==
    /\ Len(prefix) <= Len(s)
    /\ SubSeq(s, 1, Len(prefix)) = prefix

\* a plausible slip: the comparison made on whole names instead of suffixes
endswith_exact(s, suffix) == s = suffix

\* a plausible slip: every name matches the empty remainder
endswith_any(s, suffix) == Len(suffix) <= Len(s)

\* str.endswith(suffix)
endswith(s, suffix) ==
    /\ Len(suffix) <= Len(s)
    /\ SubSeq(s, Len(s) - Len(suffix) + 1, Len(s)) = suffix

\* "run_lems_with"
RunLemsWithPrefix == <<"r","u","n","_","l","e","m","s","_","w","i","t","h">>

\* inspect.getmembers(sys.modules[__name__], inspect.isfunction): the
\* functions the module defines, sorted by name
function_tuple == <<
    <<"_","g","u","i","_","s","t","r","i","n","g">>,
    <<"_","i","n","c","l","u","d","e","_","s","t","r","i","n","g">>,
    <<"e","x","e","c","u","t","e","_","c","o","m","m","a","n","d","_","i","n","_","d","i","r">>,
    <<"e","x","e","c","u","t","e","_","c","o","m","m","a","n","d","_","i","n","_","d","i","r","_","w","i","t","h","_","r","e","a","l","t","i","m","e","_","o","u","t","p","u","t">>,
    <<"g","e","n","e","r","a","t","e","_","s","i","m","_","s","c","r","i","p","t","s","_","i","n","_","f","o","l","d","e","r">>,
    <<"r","e","l","o","a","d","_","s","a","v","e","d","_","d","a","t","a">>,
    <<"r","u","n","_","j","n","e","u","r","o","m","l">>,
    <<"r","u","n","_","j","n","e","u","r","o","m","l","_","w","i","t","h","_","r","e","a","l","t","i","m","e","_","o","u","t","p","u","t">>,
    <<"r","u","n","_","l","e","m","s","_","w","i","t","h">>,
    <<"r","u","n","_","l","e","m","s","_","w","i","t","h","_","e","d","e","n">>,
    <<"r","u","n","_","l","e","m","s","_","w","i","t","h","_","j","n","e","u","r","o","m","l">>,
    <<"r","u","n","_","l","e","m","s","_","w","i","t","h","_","j","n","e","u","r","o","m","l","_","b","r","i","a","n","2">>,
    <<"r","u","n","_","l","e","m","s","_","w","i","t","h","_","j","n","e","u","r","o","m","l","_","n","e","t","p","y","n","e">>,
    <<"r","u","n","_","l","e","m","s","_","w","i","t","h","_","j","n","e","u","r","o","m","l","_","n","e","u","r","o","n">>,
    <<"r","u","n","_","m","u","l","t","i","p","l","e","_","l","e","m","s","_","w","i","t","h">> >>

\* the test both dispatchers make on a function name
engine_matches(fname, engine) ==
    startswith(fname, RunLemsWithPrefix) /\ endswith(fname, engine)

\* the indices of function_tuple an engine string matches
MatchingFunctions(engine) ==
    {k \in 1..Len(function_tuple) : engine_matches(function_tuple[k], engine)}

\* engine strings a caller may pass
EngineInputs == {
    <<"j","n","e","u","r","o","m","l">>,
    <<"j","n","e","u","r","o","m","l","_","n","e","u","r","o","n">>,
    <<"j","n","e","u","r","o","m","l","_","n","e","t","p","y","n","e">>,
    <<"j","n","e","u","r","o","m","l","_","b","r","i","a","n","2">>,
    <<"e","d","e","n">>,
    <<"n","e","u","r","o","n">>,
    <<"n">>,
    <<"w","i","t","h">>,
    <<>>,
    <<"n","e","s","t">>,
    <<"j","n","e","u","r","o","m","l","_","n","e","s","t">>,
    <<"N","E","U","R","O","N">>,
    <<"r","u","n","_","l","e","m","s","_","w","i","t","h","_","j","n","e","u","r","o","m","l","_","n","e","u","r","o","n","x">> }

\* what a call of an engine function can do: return a value or raise
EngineOutcomes == {"True", "False", "data", "raise"}

(***************************************************************************)
(* run_lems_with(engine, *args, **kwargs)                                  *)
(***************************************************************************)

DispInit ==
    /\ d_pc = "loop"
    /\ d_engine \in EngineInputs
    /\ d_i = 1
    /\ d_found = FALSE
    /\ d_retval = "Unbound"
    /\ d_called = <<>>
    /\ d_result = [kind |-> "none", value |-> "None"]

DispIdle ==
    /\ d_pc = "off"
    /\ d_engine = <<>>
    /\ d_i = 1
    /\ d_found = FALSE
    /\ d_retval = "Unbound"
    /\ d_called = <<>>
    /\ d_result = [kind |-> "none", value |-> "None"]

\* one iteration of `for fname, function in function_tuple` on a name that
\* does not match
run_lems_with_skip ==
    /\ d_pc = "loop"
    /\ d_i <= Len(function_tuple)
    /\ ~engine_matches(function_tuple[d_i], d_engine)
    /\ d_i' = d_i + 1
    /\ UNCHANGED <<d_pc, d_engine, d_found, d_retval, d_called, d_result>>
    /\ UNCHANGED otherThanDisp

\* one iteration on a matching name: found = True; retval = function(...)
run_lems_with_call ==
    /\ d_pc = "loop"
    /\ d_i <= Len(function_tuple)
    /\ engine_matches(function_tuple[d_i], d_engine)
    /\ d_called' = Append(d_called, d_i)
    /\ d_found' = TRUE
    /\ \E o \in EngineOutcomes :
          IF o = "raise"
          THEN /\ d_pc' = "done"
               /\ d_result' = [kind |-> "raise", value |-> "Exception"]
               /\ UNCHANGED <<d_retval, d_i>>
          ELSE /\ d_retval' = o
               /\ d_i' = d_i + 1
               /\ UNCHANGED <<d_pc, d_result>>
    /\ UNCHANGED d_engine
    /\ UNCHANGED otherThanDisp

\* after the loop: `if found is False: ... return False`, else return retval
run_lems_with_return ==
    /\ d_pc = "loop"
    /\ d_i > Len(function_tuple)
    /\ d_pc' = "done"
    /\ d_result' = IF d_found = FALSE
                   THEN [kind |-> "return", value |-> "False"]
                   ELSE [kind |-> "return", value |-> d_retval]
    /\ UNCHANGED <<d_engine, d_i, d_found, d_retval, d_called>>
    /\ UNCHANGED otherThanDisp

DispNext == run_lems_with_skip \/ run_lems_with_call \/ run_lems_with_return

(***************************************************************************)
(* run_multiple_lems_with(num_parallel, sims_spec)                         *)
(***************************************************************************)

\* most entries of a sims_spec
MaxSims == 2
\* most workers a caller asks for; num_parallel = 0 stands for None
MaxParallel == 2
\* the worker count ppft detects when num_parallel is None
NCpus == 2

\* the names of the LEMS files that key a sims_spec, in insertion order
LemsNames == <<"LEMS1.xml", "LEMS2.xml", "LEMS3.xml", "LEMS4.xml">>

Jneuroml       == <<"j","n","e","u","r","o","m","l">>
JneuromlNeuron == <<"j","n","e","u","r","o","m","l","_","n","e","u","r","o","n">>
Eden           == <<"e","d","e","n">>
Nest           == <<"n","e","s","t">>

\* the values of a sims_spec: {"engine": ..., "args": (...), "kwargs": {...}};
\* kwargs is given by its keys
SimDicts == {
    [engine |-> JneuromlNeuron, args |-> <<>>,     kwargs |-> {}],
    [engine |-> JneuromlNeuron, args |-> <<"a1">>, kwargs |-> {"realtime_output"}],
    [engine |-> Jneuroml,       args |-> <<"a1">>, kwargs |-> {}],
    [engine |-> Eden,           args |-> <<>>,     kwargs |-> {}],
    [engine |-> Eden,           args |-> <<>>,     kwargs |-> {"realtime_output"}],
    [engine |-> JneuromlNeuron, args |-> <<>>,     kwargs |-> {"lems_file_name"}],
    [engine |-> Nest,           args |-> <<>>,     kwargs |-> {}] }

\* the parameters common to the four jNeuroML engine functions
JnmlParams == {"lems_file_name", "paths_to_include", "max_memory", "skip_run",
               "nogui", "load_saved_data", "reload_events", "plot",
               "show_plot_already", "exec_in_dir", "verbose", "exit_on_fail",
               "cleanup"}

\* inspect.signature(function).parameters, by index in function_tuple
Params(f) ==
    CASE f = 9  -> {"engine"}
      [] f = 10 -> {"lems_file_name", "load_saved_data", "reload_events", "verbose"}
      [] f = 11 -> JnmlParams
      [] f = 12 -> JnmlParams
      [] f = 13 -> JnmlParams \cup {"num_processors", "only_generate_scripts",
                                    "only_generate_json", "return_string"}
      [] f = 14 -> JnmlParams \cup {"only_generate_scripts", "compile_mods",
                                    "realtime_output"}
      [] OTHER  -> {}

\* the first positional parameter of a function
FirstParam(f) == IF f = 9 THEN "engine" ELSE "lems_file_name"

\* whether the signature ends in **kwargs (run_lems_with only)
HasVarKw(f) == f = 9

\* callfunc.bind(sim_dict["args"], **sim_dict["kwargs"]) succeeds: the one
\* positional value takes the first parameter, every keyword names another
bind_ok(f, kwargs) ==
    /\ FirstParam(f) \notin kwargs
    /\ HasVarKw(f) \/ kwargs \subseteq Params(f)

\* a plausible slip: the first match is not the one taken
first_match_last(engine) ==
    CHOOSE k \in MatchingFunctions(engine) :
        \A m \in MatchingFunctions(engine) : m <= k

\* the function the loop stops at: the first match in function_tuple
first_match(engine) ==
    CHOOSE k \in MatchingFunctions(engine) :
        \A m \in MatchingFunctions(engine) : k <= m

EmptyDict == [x \in {} |-> 0]

\* d[k] = v
DictSet(d, k, v) == [x \in DOMAIN d \cup {k} |-> IF x = k THEN v ELSE d[x]]

\* an argument value: where it came from and what it holds
ArgValue(src, val) == [src |-> src, val |-> val]

\* callfunc.bind(sim_dict["args"], **sim_dict["kwargs"]): the args tuple is
\* one positional value and takes the first parameter; each keyword takes
\* the parameter it names
bind(f, args, kwargs) ==
    [q \in {FirstParam(f)} \cup kwargs |->
        IF q = FirstParam(f) THEN ArgValue("args_tuple", args)
        ELSE ArgValue("kwargs", <<q>>)]

\* bound_arguments.apply_defaults()
apply_defaults(f, arguments) ==
    [q \in DOMAIN arguments \cup Params(f) |->
        IF q \in DOMAIN arguments THEN arguments[q] ELSE ArgValue("default", <<>>)]

\* bound_arguments.args: the values of the signature's named parameters
bound_args(f, arguments) == [q \in Params(f) |-> arguments[q]]

\* the arguments a job is submitted with
submitted_args(f, sim) ==
    bound_args(f, DictSet(apply_defaults(f, bind(f, sim.args, sim.kwargs)),
                          "lems_file_name", ArgValue("sim", <<sim.name>>)))

\* the keys of sims_spec
SimKeys(sims) == {sims[k].name : k \in 1..Len(sims)}

\* pp.Server() / pp.Server(num_parallel): the number of workers
ncpus(num_parallel) == IF num_parallel = 0 THEN NCpus ELSE num_parallel

\* a sims_spec of n entries; entry e (if any) is keyed "engine"
SimsSpecs ==
    UNION { { [k \in 1..n |-> [name   |-> IF k = e THEN "engine" ELSE LemsNames[k],
                               engine |-> c[k].engine,
                               args   |-> c[k].args,
                               kwargs |-> c[k].kwargs]] :
              c \in [1..n -> SimDicts], e \in 0..n } : n \in 0..MaxSims }

BatchInit ==
    /\ b_pc = "loop"
    /\ b_sims \in SimsSpecs
    /\ b_parallel \in 0..MaxParallel
    /\ b_i = 1
    /\ b_results = EmptyDict
    /\ b_jobs = <<>>
    /\ b_done = <<>>
    /\ b_log = <<>>
    /\ b_ret = [kind |-> "none", value |-> EmptyDict, exc |-> "none"]

BatchIdle ==
    /\ b_pc = "off"
    /\ b_sims = <<>>
    /\ b_parallel = 0
    /\ b_i = 1
    /\ b_results = EmptyDict
    /\ b_jobs = <<>>
    /\ b_done = <<>>
    /\ b_log = <<>>
    /\ b_ret = [kind |-> "none", value |-> EmptyDict, exc |-> "none"]

\* a loop iteration whose engine matches and whose arguments bind:
\* bound_arguments.arguments["lems_file_name"] = sim; the job is submitted
\* and its handle kept under results[sim]
run_multiple_submit ==
    /\ b_pc = "loop"
    /\ b_i <= Len(b_sims)
    /\ LET sim == b_sims[b_i] IN
       /\ MatchingFunctions(sim.engine) # {}
       /\ bind_ok(first_match(sim.engine), sim.kwargs)
       /\ b_jobs' = Append(b_jobs,
              [fn |-> first_match(sim.engine),
               lems_file_name |-> sim.name,
               kwargs |-> sim.kwargs,
               args |-> submitted_args(first_match(sim.engine), sim),
               state |-> "queued"])
       /\ b_results' = DictSet(b_results, sim.name, Len(b_jobs) + 1)
    /\ b_i' = b_i + 1
    /\ UNCHANGED <<b_pc, b_sims, b_parallel, b_done, b_log, b_ret>>
    /\ UNCHANGED otherThanBatch

\* a loop iteration whose engine matches but callfunc.bind raises TypeError
run_multiple_bind_error ==
    /\ b_pc = "loop"
    /\ b_i <= Len(b_sims)
    /\ LET sim == b_sims[b_i] IN
       /\ MatchingFunctions(sim.engine) # {}
       /\ ~bind_ok(first_match(sim.engine), sim.kwargs)
    /\ b_pc' = "raised"
    /\ b_ret' = [kind |-> "raise", value |-> EmptyDict, exc |-> "TypeError"]
    /\ UNCHANGED <<b_sims, b_parallel, b_i, b_results, b_jobs, b_done, b_log>>
    /\ UNCHANGED otherThanBatch

\* a loop iteration whose engine matches no function (found is False): the
\* message is formatted from sims_spec['engine'], then {} is returned
run_multiple_unmatched ==
    /\ b_pc = "loop"
    /\ b_i <= Len(b_sims)
    /\ MatchingFunctions(b_sims[b_i].engine) = {}
    /\ IF "engine" \in SimKeys(b_sims)
       THEN /\ b_log' = Append(b_log, "error")
            /\ b_pc' = "returned"
            /\ b_ret' = [kind |-> "return", value |-> EmptyDict, exc |-> "none"]
       ELSE /\ b_pc' = "raised"
            /\ b_ret' = [kind |-> "raise", value |-> EmptyDict, exc |-> "KeyError"]
            /\ UNCHANGED b_log
    /\ UNCHANGED <<b_sims, b_parallel, b_i, b_results, b_jobs, b_done>>
    /\ UNCHANGED otherThanBatch

\* the loop is over: "Waiting for jobs to finish"
run_multiple_wait ==
    /\ b_pc = "loop"
    /\ b_i > Len(b_sims)
    /\ b_pc' = "waiting"
    /\ UNCHANGED <<b_sims, b_parallel, b_i, b_results, b_jobs, b_done, b_log, b_ret>>
    /\ UNCHANGED otherThanBatch

\* a plausible slip: the results are returned without waiting for the pool
wait_done_none(jobs) == TRUE

\* jobserver.wait() returns: no submitted job is queued or running
wait_done(jobs) == \A j \in 1..Len(jobs) : jobs[j].state = "done"

\* jobserver.wait() has returned; return results
run_multiple_return ==
    /\ b_pc = "waiting"
    /\ wait_done(b_jobs)
    /\ b_pc' = "returned"
    /\ b_ret' = [kind |-> "return", value |-> b_results, exc |-> "none"]
    /\ UNCHANGED <<b_sims, b_parallel, b_i, b_results, b_jobs, b_done, b_log>>
    /\ UNCHANGED otherThanBatch

\* a worker of the pool takes a queued job
job_start ==
    /\ b_pc # "off"
    /\ \E j \in 1..Len(b_jobs) :
          /\ b_jobs[j].state = "queued"
          /\ Cardinality({k \in 1..Len(b_jobs) : b_jobs[k].state = "running"})
                < ncpus(b_parallel)
          /\ b_jobs' = [b_jobs EXCEPT ![j].state = "running"]
    /\ UNCHANGED <<b_pc, b_sims, b_parallel, b_i, b_results, b_done, b_log, b_ret>>
    /\ UNCHANGED otherThanBatch

\* a running job completes
job_finish ==
    /\ b_pc # "off"
    /\ \E j \in 1..Len(b_jobs) :
          /\ b_jobs[j].state = "running"
          /\ b_jobs' = [b_jobs EXCEPT ![j].state = "done"]
          /\ b_done' = Append(b_done, j)
    /\ UNCHANGED <<b_pc, b_sims, b_parallel, b_i, b_results, b_log, b_ret>>
    /\ UNCHANGED otherThanBatch

BatchNext ==
    \/ run_multiple_submit
    \/ run_multiple_bind_error
    \/ run_multiple_unmatched
    \/ run_multiple_wait
    \/ run_multiple_return
    \/ job_start
    \/ job_finish

(***************************************************************************)
(* run_jneuroml and the engine functions run_lems_with_jneuroml,           *)
(* run_lems_with_jneuroml_neuron, run_lems_with_jneuroml_netpyne and       *)
(* run_lems_with_jneuroml_brian2                                           *)
(***************************************************************************)

\* pyneuroml.errors.UNKNOWN_ERR
UNKNOWN_ERR == -1

\* a Python value: a scalar v, or the pair (v, out)
Scalar(v)  == [form |-> "scalar", v |-> v, out |-> "-"]
Pair(v, o) == [form |-> "pair", v |-> v, out |-> o]

\* how a call ends
Return(val)  == [kind |-> "return", value |-> val, status |-> 0, exc |-> "none"]
Exit(status) == [kind |-> "exit", value |-> Scalar("None"), status |-> status, exc |-> "SystemExit"]
Raise(exc)   == [kind |-> "raise", value |-> Scalar("None"), status |-> 0, exc |-> exc]
NoResult     == [kind |-> "none", value |-> Scalar("None"), status |-> 0, exc |-> "none"]

\* what execute_command_in_dir does with the jnml command: it returns
\* (0, output) when the command succeeds, (returncode, output) on
\* CalledProcessError, (-1, str(e)) on another exception, and raises when
\* the output of the failed command cannot be decoded
ExecOutcomes == {
    [raised |-> FALSE, rc |-> 0,  out |-> "output"],
    [raised |-> FALSE, rc |-> 1,  out |-> "output"],
    [raised |-> FALSE, rc |-> 2,  out |-> "output"],
    [raised |-> FALSE, rc |-> -1, out |-> "error"],
    [raised |-> TRUE,  rc |-> -1, out |-> ""] }

\* a plausible slip: a failed command reported as a success
run_jneuroml_ignores_retcode(o, exit_on_fail, return_string) ==
    IF o.raised
    THEN IF exit_on_fail THEN Exit(UNKNOWN_ERR)
         ELSE Return(IF return_string THEN Pair("False", o.out) ELSE Scalar("False"))
    ELSE Return(IF return_string THEN Pair("True", o.out) ELSE Scalar("True"))

\* run_jneuroml: the command is executed; on retcode != 0 the process exits
\* with retcode or False / (False, output) is returned; an exception exits
\* with UNKNOWN_ERR or returns False / (False, output)
run_jneuroml(o, exit_on_fail, return_string) ==
    IF o.raised
    THEN IF exit_on_fail THEN Exit(UNKNOWN_ERR)
         ELSE Return(IF return_string THEN Pair("False", o.out) ELSE Scalar("False"))
    ELSE IF o.rc # 0
    THEN IF exit_on_fail THEN Exit(o.rc)
         ELSE Return(IF return_string THEN Pair("False", o.out) ELSE Scalar("False"))
    ELSE Return(IF return_string THEN Pair("True", o.out) ELSE Scalar("True"))

\* run_jneuroml_with_realtime_output: returns whether the return code is 0;
\* an exception exits with UNKNOWN_ERR or returns False
run_jneuroml_with_realtime_output(o, exit_on_fail) ==
    IF o.raised
    THEN IF exit_on_fail THEN Exit(UNKNOWN_ERR) ELSE Return(Scalar("False"))
    ELSE Return(Scalar(IF o.rc = 0 THEN "True" ELSE "False"))

\* _gui_string(nogui)
gui_string(nogui) == IF nogui THEN <<[opt |-> "-nogui", val |-> <<>>]>> ELSE <<>>

\* ":".join(items)
RECURSIVE join(_)
join(items) ==
    IF Len(items) = 0 THEN <<>>
    ELSE IF Len(items) = 1 THEN <<items[1]>>
    ELSE <<items[1], ":">> \o join(Tail(items))

\* _include_string(paths_to_include): a non-empty str is wrapped in a list;
\* a list or tuple gives -I '<joined>', anything else nothing
include_string(paths) ==
    LET p == IF paths.items # <<>> /\ paths.type = "str"
             THEN [type |-> "list", items |-> paths.items]
             ELSE paths
    IN IF p.type \in {"tuple", "list"}
       THEN <<[opt |-> "-I", val |-> join(p.items)]>>
       ELSE <<>>

Flag(name) == <<[opt |-> name, val |-> <<>>]>>

\* "%i" % n, for the processor counts a caller passes
FormatInt(n) == IF n = 1 THEN "1" ELSE "4"

\* the post_args each engine function builds
post_args(fn, a) ==
    CASE fn = "jneuroml" ->
            gui_string(a.nogui) \o include_string(a.paths_to_include)
      [] fn = "jneuroml_neuron" ->
            Flag("-neuron")
            \o (IF ~a.only_generate_scripts THEN Flag("-run") ELSE <<>>)
            \o (IF a.compile_mods THEN Flag("-compile") ELSE <<>>)
            \o gui_string(a.nogui) \o include_string(a.paths_to_include)
      [] fn = "jneuroml_netpyne" ->
            Flag("-netpyne")
            \o (IF a.num_processors # 1
                THEN <<[opt |-> "-np", val |-> <<FormatInt(a.num_processors)>>]>> ELSE <<>>)
            \o (IF ~a.only_generate_scripts /\ ~a.only_generate_json
                THEN Flag("-run") ELSE <<>>)
            \o (IF a.only_generate_json THEN Flag("-json") ELSE <<>>)
            \o gui_string(a.nogui) \o include_string(a.paths_to_include)
      [] fn = "jneuroml_brian2" -> Flag("-brian2")

EngineFns == {"jneuroml", "jneuroml_neuron", "jneuroml_netpyne", "jneuroml_brian2"}

\* values of paths_to_include
PathsInputs == {
    [type |-> "list", items |-> <<>>],
    [type |-> "list", items |-> <<"d1", "d2">>],
    [type |-> "str",  items |-> <<"d1">>],
    [type |-> "tuple", items |-> <<"d1">>] }

\* the arguments of a call; a parameter a function does not have is fixed
\* at the value that leaves its code path unchanged
EngineArgs(fn) ==
    { [skip_run |-> s, nogui |-> g, load_saved_data |-> l, exit_on_fail |-> x,
       paths_to_include |-> p, return_string |-> rs, realtime_output |-> rt,
       only_generate_scripts |-> og, compile_mods |-> cm,
       only_generate_json |-> oj, num_processors |-> np] :
        s \in BOOLEAN, g \in BOOLEAN, l \in BOOLEAN, x \in BOOLEAN,
        p \in PathsInputs,
        rs \in (IF fn = "jneuroml_netpyne" THEN BOOLEAN ELSE {FALSE}),
        rt \in (IF fn = "jneuroml_neuron" THEN BOOLEAN ELSE {FALSE}),
        og \in (IF fn \in {"jneuroml_neuron", "jneuroml_netpyne"} THEN BOOLEAN ELSE {FALSE}),
        cm \in (IF fn = "jneuroml_neuron" THEN BOOLEAN ELSE {TRUE}),
        oj \in (IF fn = "jneuroml_netpyne" THEN BOOLEAN ELSE {FALSE}),
        np \in (IF fn = "jneuroml_netpyne" THEN {1, 4} ELSE {1}) }

\* sys.argv of the calling process
ArgvInputs == {<<"prog">>, <<"prog", "file.xml">>}

NoExec   == [called |-> FALSE, raised |-> FALSE, rc |-> 0, out |-> "", at |-> 0,
             realtime |-> FALSE, cmd |-> <<>>, res |-> NoResult]
NoReload == [called |-> FALSE, t_run |-> 0, at |-> 0]

\* most calls of an engine function in one process
MaxCalls == 2
\* most entries of sys.path
MaxSysPath == 2

\* "lib", "a/lib", "b" and "", a character each for "lib", "a" and "b"
Str_lib   == <<"l">>
Str_a_lib == <<"a", "/", "l">>
Str_b     == <<"b">>

\* values of sys.path
SysPaths ==
    UNION { [1..n -> {Str_lib, Str_a_lib, Str_b, <<>>}] : n \in 0..MaxSysPath }

\* os.environ as far as PYTHONPATH goes
Unset == [set |-> FALSE, val |-> <<>>]
Environ(val) == [set |-> TRUE, val |-> val]

\* PYTHONPATH is unset, "", "b" or "a/lib:b"
EnvironInputs == { Unset, Environ(<<>>), Environ(Str_b),
                   Environ(Str_a_lib \o <<":">> \o Str_b) }

\* sub in s, for strings
str_in(sub, s) ==
    \E i \in 0..(Len(s) - Len(sub)) : SubSeq(s, i + 1, i + Len(sub)) = sub

\* a plausible slip: every path is taken to be missing
path_missing_always(path, pythonpath) == TRUE

\* path + ":" not in os.environ["PYTHONPATH"]
path_missing(path, pythonpath) == ~str_in(path \o <<":">>, pythonpath)

\* for path in sys.path[i:]: a missing path is put in front, "%s:%s"
RECURSIVE add_paths(_, _, _)
add_paths(pythonpath, syspath, i) ==
    IF i > Len(syspath) THEN pythonpath
    ELSE add_paths(IF path_missing(syspath[i], pythonpath)
                   THEN syspath[i] \o <<":">> \o pythonpath
                   ELSE pythonpath,
                   syspath, i + 1)

\* the PYTHONPATH fix of run_lems_with_jneuroml_neuron: an unset variable is
\* set to "", then the loop over sys.path
fix_pythonpath(environ, syspath) ==
    Environ(add_paths(IF environ.set THEN environ.val ELSE <<>>, syspath, 1))

RunInit ==
    /\ r_pc = "start"
    /\ r_fn \in EngineFns
    /\ r_args \in EngineArgs(r_fn)
    /\ r_argv \in (IF r_fn = "jneuroml_brian2" THEN ArgvInputs ELSE {<<"prog">>})
    /\ r_argv0 = r_argv
    /\ r_clock = 1
    /\ r_post_args = <<>>
    /\ r_t_run = 0
    /\ r_success = "Unbound"
    /\ r_output_string = "Unbound"
    /\ r_exec = NoExec
    /\ r_reload = NoReload
    /\ r_trace = <<>>
    /\ r_result = NoResult
    /\ r_syspath = <<Str_lib>>
    /\ r_environ0 = Unset
    /\ r_environ = r_environ0
    /\ r_calls = <<>>

\* run_lems_with_jneuroml_neuron called again and again in one process, over
\* the values of sys.path and of PYTHONPATH
NeuronPathInit ==
    /\ r_pc = "start"
    /\ r_fn = "jneuroml_neuron"
    /\ r_args \in { a \in EngineArgs(r_fn) :
                      /\ a.nogui /\ ~a.exit_on_fail /\ ~a.realtime_output
                      /\ ~a.only_generate_scripts /\ a.compile_mods
                      /\ a.paths_to_include = [type |-> "list", items |-> <<"d1", "d2">>] }
    /\ r_argv = <<"prog">>
    /\ r_argv0 = r_argv
    /\ r_clock = 1
    /\ r_post_args = <<>>
    /\ r_t_run = 0
    /\ r_success = "Unbound"
    /\ r_output_string = "Unbound"
    /\ r_exec = NoExec
    /\ r_reload = NoReload
    /\ r_trace = <<>>
    /\ r_result = NoResult
    /\ r_syspath \in SysPaths
    /\ r_environ0 \in EnvironInputs
    /\ r_environ = r_environ0
    /\ r_calls = <<>>

RunIdle ==
    /\ r_pc = "off"
    /\ r_fn = "jneuroml"
    /\ r_args = CHOOSE a \in EngineArgs("jneuroml") : TRUE
    /\ r_argv = <<"prog">>
    /\ r_argv0 = <<"prog">>
    /\ r_clock = 1
    /\ r_post_args = <<>>
    /\ r_t_run = 0
    /\ r_success = "Unbound"
    /\ r_output_string = "Unbound"
    /\ r_exec = NoExec
    /\ r_reload = NoReload
    /\ r_trace = <<>>
    /\ r_result = NoResult
    /\ r_syspath = <<>>
    /\ r_environ0 = Unset
    /\ r_environ = r_environ0
    /\ r_calls = <<>>

\* post_args is assembled
engine_build ==
    /\ r_pc = "start"
    /\ r_post_args' = post_args(r_fn, r_args)
    /\ r_trace' = Append(r_trace, "built")
    /\ r_clock' = r_clock + 1
    /\ r_pc' = "built"
    /\ UNCHANGED <<r_fn, r_args, r_argv0, r_argv, r_t_run, r_success, r_output_string,
                   r_exec, r_reload, r_result>>
    /\ UNCHANGED <<r_syspath, r_environ0, r_environ, r_calls>>
    /\ UNCHANGED otherThanRun

\* t_run = datetime.now()
engine_t_run ==
    /\ r_pc = "built"
    /\ r_t_run' = r_clock
    /\ r_trace' = Append(r_trace, "t_run")
    /\ r_clock' = r_clock + 1
    /\ r_pc' = "timed"
    /\ UNCHANGED <<r_fn, r_args, r_argv0, r_argv, r_post_args, r_success, r_output_string,
                   r_exec, r_reload, r_result>>
    /\ UNCHANGED <<r_syspath, r_environ0, r_environ, r_calls>>
    /\ UNCHANGED otherThanRun

\* skip_run is set: run_lems_with_jneuroml assigns nothing, the other three
\* set success = True
engine_skip ==
    /\ r_pc = "timed"
    /\ r_args.skip_run
    /\ r_success' = IF r_fn = "jneuroml" THEN r_success ELSE "True"
    /\ r_clock' = r_clock + 1
    /\ r_pc' = "executed"
    /\ UNCHANGED <<r_fn, r_args, r_argv0, r_argv, r_post_args, r_t_run, r_output_string,
                   r_exec, r_reload, r_trace, r_result>>
    /\ r_calls' = Append(r_calls, [skip_run |-> TRUE, environ |-> r_environ])
    /\ UNCHANGED <<r_syspath, r_environ0, r_environ>>
    /\ UNCHANGED otherThanRun

\* the call of run_jneuroml / run_jneuroml_with_realtime_output each engine
\* function makes for outcome o of the command
jnml_call(fn, a, o) ==
    IF fn = "jneuroml_neuron" /\ a.realtime_output
    THEN run_jneuroml_with_realtime_output(o, a.exit_on_fail)
    ELSE run_jneuroml(o, a.exit_on_fail, a.return_string)

\* skip_run is not set: the jnml command is run and its outcome assigned to
\* success (and output_string); run_lems_with_jneuroml_brian2 then rewrites
\* sys.argv[1], imports the generated module and restores sys.argv
engine_execute ==
    /\ r_pc = "timed"
    /\ ~r_args.skip_run
    /\ \E o \in ExecOutcomes, import_ok \in BOOLEAN :
          LET res == jnml_call(r_fn, r_args, o) IN
          /\ import_ok \/ (r_fn = "jneuroml_brian2" /\ res.kind = "return" /\ Len(r_argv) >= 2)
          /\ r_exec' = [called |-> TRUE, raised |-> o.raised, rc |-> o.rc, out |-> o.out,
                        at |-> r_clock,
                        realtime |-> (r_fn = "jneuroml_neuron" /\ r_args.realtime_output),
                        cmd |-> r_post_args, res |-> res]
          /\ IF res.kind = "exit"
             THEN /\ r_result' = res
                  /\ r_pc' = "done"
                  /\ r_trace' = r_trace \o <<"execute", "outcome">>
                  /\ UNCHANGED <<r_success, r_output_string, r_argv>>
             ELSE /\ r_success' = res.value.v
                  /\ r_output_string' = IF res.value.form = "pair" THEN res.value.out
                                        ELSE r_output_string
                  /\ IF r_fn # "jneuroml_brian2"
                     THEN /\ r_pc' = "executed"
                          /\ r_trace' = r_trace \o <<"execute", "outcome">>
                          /\ UNCHANGED <<r_argv, r_result>>
                     ELSE IF Len(r_argv) < 2
                     THEN \* sys.argv[1] = "-nogui" raises IndexError
                          /\ r_pc' = "done"
                          /\ r_result' = Raise("IndexError")
                          /\ r_trace' = r_trace \o <<"execute", "outcome">>
                          /\ UNCHANGED r_argv
                     ELSE IF ~import_ok
                     THEN \* the import raises: sys.argv is left rewritten
                          /\ r_pc' = "done"
                          /\ r_result' = Raise("ImportError")
                          /\ r_argv' = [r_argv EXCEPT ![2] = "-nogui"]
                          /\ r_trace' = r_trace \o <<"execute", "outcome", "argv", "import">>
                     ELSE /\ r_pc' = "executed"
                          /\ r_trace' = r_trace \o <<"execute", "outcome", "argv", "import", "argv_restored">>
                          /\ UNCHANGED <<r_argv, r_result>>
    /\ r_clock' = r_clock + 1
    /\ UNCHANGED <<r_fn, r_args, r_argv0, r_post_args, r_t_run, r_reload>>
    /\ r_environ' = IF r_fn = "jneuroml_neuron"
                     THEN fix_pythonpath(r_environ, r_syspath) ELSE r_environ
    /\ r_calls' = Append(r_calls, [skip_run |-> FALSE, environ |-> r_environ'])
    /\ UNCHANGED <<r_syspath, r_environ0>>
    /\ UNCHANGED otherThanRun

\* a plausible slip: the failure test left out
check_success_never_fails(fn, a, success, output_string) ==
    IF success = "Unbound" THEN Raise("UnboundLocalError")
    ELSE IF a.load_saved_data THEN NoResult
    ELSE IF fn = "jneuroml_netpyne" /\ a.return_string
    THEN IF output_string = "Unbound" THEN Raise("UnboundLocalError")
         ELSE Return(Pair("True", output_string))
    ELSE Return(Scalar("True"))

\* the code after the run: `if not success: return False` (for netpyne
\* False, output_string when return_string); then reload_saved_data when
\* load_saved_data (NoResult: the call is still to be made), else True (for
\* netpyne True, output_string when return_string). Reading a name that was
\* never assigned raises UnboundLocalError.
check_success(fn, a, success, output_string) ==
    IF success = "Unbound" THEN Raise("UnboundLocalError")
    ELSE IF success = "False"
    THEN IF fn = "jneuroml_netpyne" /\ a.return_string
         THEN Return(Pair("False", output_string))
         ELSE Return(Scalar("False"))
    ELSE IF a.load_saved_data THEN NoResult
    ELSE IF fn = "jneuroml_netpyne" /\ a.return_string
    THEN IF output_string = "Unbound" THEN Raise("UnboundLocalError")
         ELSE Return(Pair("True", output_string))
    ELSE Return(Scalar("True"))

\* the statements that follow the run
engine_check ==
    /\ r_pc = "executed"
    /\ LET res == check_success(r_fn, r_args, r_success, r_output_string) IN
       IF res.kind = "none"
       THEN /\ r_pc' = "reloading"
            /\ UNCHANGED r_result
       ELSE /\ r_pc' = "done"
            /\ r_result' = res
    /\ r_clock' = r_clock + 1
    /\ UNCHANGED <<r_fn, r_args, r_argv0, r_argv, r_post_args, r_t_run, r_success,
                   r_output_string, r_exec, r_reload, r_trace>>
    /\ UNCHANGED <<r_syspath, r_environ0, r_environ, r_calls>>
    /\ UNCHANGED otherThanRun

\* return reload_saved_data(lems_file_name, base_dir=exec_in_dir,
\* t_run=t_run, ...): the data is returned, or the reload raises
engine_reload ==
    /\ r_pc = "reloading"
    /\ r_reload' = [called |-> TRUE, t_run |-> r_t_run, at |-> r_clock]
    /\ r_trace' = Append(r_trace, "reload")
    /\ \E ok \in BOOLEAN :
          r_result' = IF ok THEN Return(Scalar("data")) ELSE Raise("Exception")
    /\ r_clock' = r_clock + 1
    /\ r_pc' = "done"
    /\ UNCHANGED <<r_fn, r_args, r_argv0, r_argv, r_post_args, r_t_run, r_success,
                   r_output_string, r_exec>>
    /\ UNCHANGED <<r_syspath, r_environ0, r_environ, r_calls>>
    /\ UNCHANGED otherThanRun

RunNext ==
    \/ engine_build
    \/ engine_t_run
    \/ engine_skip
    \/ engine_execute
    \/ engine_check
    \/ engine_reload

\* the caller calls the function again, in the same process, with skip_run
\* as before or not; what the call before left in os.environ and sys.argv
\* stays
engine_call_again ==
    /\ r_pc = "done"
    /\ Len(r_calls) < MaxCalls
    /\ \E skip_run \in BOOLEAN : r_args' = [r_args EXCEPT !.skip_run = skip_run]
    /\ r_pc' = "start"
    /\ r_clock' = r_clock + 1
    /\ r_post_args' = <<>>
    /\ r_t_run' = 0
    /\ r_success' = "Unbound"
    /\ r_output_string' = "Unbound"
    /\ r_exec' = NoExec
    /\ r_reload' = NoReload
    /\ r_trace' = <<>>
    /\ r_result' = NoResult
    /\ UNCHANGED <<r_fn, r_argv, r_argv0, r_syspath, r_environ0, r_environ, r_calls>>
    /\ UNCHANGED otherThanRun

NeuronPathNext ==
    \/ RunNext
    \/ engine_call_again


(***************************************************************************)
(* reload_saved_data                                                       *)
(*                                                                         *)
(* A path is the sequence of its components; every path below is absolute  *)
(* (realpath / the path a relative name has from os.getcwd()).  The file    *)
(* system is a function from the paths of the files that exist to their     *)
(* modification time and lines.  The LEMS file is taken to hold a           *)
(* Simulation element; plotting is left out.                                *)
(***************************************************************************)

\* latest modification time of a file; the run time t_run lies within
MaxTime == 3
\* most OutputFile elements of a Simulation
MaxOutputFiles == 2
\* most EventOutputFile elements of a Simulation
MaxEventFiles == 1
\* most lines of an output file
MaxRows == 2

\* os.getcwd()
Cwd == <<"w">>

\* os.path.dirname
dirname(path) == SubSeq(path, 1, Len(path) - 1)

\* os.path.isfile
isfile(fs, path) == path \in DOMAIN fs

\* real_lems_file: the LEMS file as given if it is a file, else the one
\* under base_dir
real_lems_file(fs, base_dir, lems_file_name) ==
    IF ~isfile(fs, Cwd \o lems_file_name)
    THEN Cwd \o base_dir \o lems_file_name
    ELSE Cwd \o lems_file_name

\* base_lems_file_path = os.path.dirname(os.path.realpath(lems_file_name))
base_lems_file_path(lems_file_name) == dirname(Cwd \o lems_file_name)

\* the places an EventOutputFile is looked for, in order
event_candidates(base_dir, lems_file_name, name) ==
    << Cwd \o base_dir \o <<name>>,
       base_lems_file_path(lems_file_name) \o <<name>> >>

\* the places an OutputFile is looked for, in order
output_candidates(base_dir, lems_file_name, name) ==
    << Cwd \o base_dir \o <<name>>,
       base_lems_file_path(lems_file_name) \o <<name>>,
       Cwd \o <<name>>,
       Cwd \o <<"NeuroML2", "results", name>> >>

\* file_name after the chain of `if not os.path.isfile(file_name)`: the
\* first candidate that is a file, else the last candidate
resolve(fs, candidates) ==
    IF \E i \in 1..Len(candidates) : isfile(fs, candidates[i])
    THEN candidates[CHOOSE i \in 1..Len(candidates) :
                        /\ isfile(fs, candidates[i])
                        /\ \A j \in 1..(i - 1) : ~isfile(fs, candidates[j])]
    ELSE candidates[Len(candidates)]

\* a plausible slip: a file written at the very time of t_run turned away
is_stale_or_equal(t_file_mod, t_run) == t_file_mod <= t_run

\* `if t_file_mod < t_run: raise Exception(...)`
is_stale(t_file_mod, t_run) == t_file_mod < t_run

\* a plausible slip: the time column left out of cols
cols_without_time(columns) == columns

\* cols: "t", then the quantity of every OutputColumn in document order
cols_of(columns) == <<"t">> \o columns

\* traces[quantity] = [] for every OutputColumn
RECURSIVE reset_columns(_, _)
reset_columns(traces, columns) ==
    IF columns = <<>> THEN traces
    ELSE reset_columns(DictSet(traces, Head(columns), <<>>), Tail(columns))

\* for vi in range(len(values)): traces[cols[vi]].append(float(values[vi]))
RECURSIVE append_values(_, _, _, _)
append_values(traces, cols, values, vi) ==
    IF vi > Len(values) THEN traces
    ELSE append_values([traces EXCEPT ![cols[vi]] = Append(@, values[vi])],
                       cols, values, vi + 1)

\* for line in f: values = line.split(); ...
RECURSIVE load_rows(_, _, _)
load_rows(traces, cols, rows) ==
    IF rows = <<>> THEN traces
    ELSE load_rows(append_values(traces, cols, Head(rows), 1), cols, Tail(rows))

\* the line an event (id, t) is written as in a file of the given format
event_line(format, ev) ==
    IF format = "TIME_ID" THEN <<ev.t, ev.id>> ELSE <<ev.id, ev.t>>

\* t and id of a line, read by the format of its EventOutputFile
parse_event(format, values) ==
    IF format = "TIME_ID" THEN [t |-> values[1], id |-> values[2]]
    ELSE [id |-> values[1], t |-> values[2]]

\* events[selections[id]].append(t), line by line
RECURSIVE load_events(_, _, _, _)
load_events(events, format, selections, rows) ==
    IF rows = <<>> THEN events
    ELSE LET e == parse_event(format, Head(rows)) IN
         load_events([events EXCEPT ![selections[e.id]] = Append(@, e.t)],
                     format, selections, Tail(rows))

\* events[select] = [] for every EventSelection
RECURSIVE reset_selections(_, _, _)
reset_selections(events, selections, ids) ==
    IF ids = {} THEN events
    ELSE LET i == CHOOSE i \in ids : \A j \in ids : i <= j IN
         reset_selections(DictSet(events, selections[i], <<>>), selections, ids \ {i})

RlReturn(traces, events, pair) ==
    [kind |-> "return", traces |-> traces, events |-> events, pair |-> pair,
     exc |-> "none", at |-> "end"]
RlRaise(exc, at) ==
    [kind |-> "raise", traces |-> EmptyDict, events |-> EmptyDict, pair |-> FALSE,
     exc |-> exc, at |-> at]
RlNoResult ==
    [kind |-> "none", traces |-> EmptyDict, events |-> EmptyDict, pair |-> FALSE,
     exc |-> "none", at |-> "none"]

\* the file system that holds the given files ([path, mtime, rows])
MkFs(files) ==
    [p \in {f.path : f \in files} |->
        LET f == CHOOSE f \in files : f.path = p
        IN [mtime |-> f.mtime, rows |-> f.rows]]

\* fileName of the k-th OutputFile / EventOutputFile
OutputNames == <<"of1.dat", "of2.dat", "of3.dat", "of4.dat">>
EventNames  == <<"ev1.dat", "ev2.dat", "ev3.dat">>

\* the lines of an output file: line r holds lens[r] numbers, each telling
\* its file, line and position
RowsOf(f, lens) ==
    [r \in 1..Len(lens) |-> [k \in 1..lens[r] |-> 100 * f + 10 * r + k]]

\* the lines of an event file of the given format holding the given events
EventRowsOf(format, evs) == [r \in 1..Len(evs) |-> event_line(format, evs[r])]

\* the events of the k-th event file: one of cell 0, one of cell 1
EventsOf(k) == <<[id |-> 0, t |-> 10 * k + 1], [id |-> 1, t |-> 10 * k + 2]>>

\* the EventSelections of an event file
Selections == [i \in {0, 1} |-> IF i = 0 THEN "pop/0" ELSE "pop/1"]

ReloadStart(in, sim, fs) ==
    /\ rl_pc = "start"
    /\ rl_in = in
    /\ rl_sim = sim
    /\ rl_fs = fs
    /\ rl_fs0 = fs
    /\ rl_k = 1
    /\ rl_traces = EmptyDict
    /\ rl_events = EmptyDict
    /\ rl_loaded = <<>>
    /\ rl_result = RlNoResult

ReloadIdle ==
    /\ rl_pc = "off"
    /\ rl_in = [lems_file_name |-> <<"L.xml">>, base_dir |-> <<>>, t_run |-> 0,
                reload_events |-> FALSE, remove_dat_files_after_load |-> FALSE]
    /\ rl_sim = [events |-> <<>>, outputs |-> <<>>]
    /\ rl_fs = EmptyDict
    /\ rl_fs0 = EmptyDict
    /\ rl_k = 1
    /\ rl_traces = EmptyDict
    /\ rl_events = EmptyDict
    /\ rl_loaded = <<>>
    /\ rl_result = RlNoResult

\* real_lems_file is found and parsed; etree.parse raises OSError when it
\* is no file
rl_parse ==
    /\ rl_pc = "start"
    /\ IF isfile(rl_fs, real_lems_file(rl_fs, rl_in.base_dir, rl_in.lems_file_name))
       THEN /\ rl_pc' = IF rl_in.reload_events THEN "events" ELSE "outputs"
            /\ UNCHANGED rl_result
       ELSE /\ rl_pc' = "done"
            /\ rl_result' = RlRaise("OSError", "parse")
    /\ UNCHANGED <<rl_in, rl_sim, rl_fs, rl_fs0, rl_k, rl_traces, rl_events, rl_loaded>>
    /\ UNCHANGED otherThanReload

\* one EventOutputFile: the file is looked for, its selections are reset,
\* its lines are read, and it is removed if asked
rl_event_file ==
    /\ rl_pc = "events"
    /\ rl_k <= Len(rl_sim.events)
    /\ LET of        == rl_sim.events[rl_k]
           file_name == resolve(rl_fs, event_candidates(rl_in.base_dir,
                                           rl_in.lems_file_name, of.fileName))
       IN IF ~isfile(rl_fs, file_name)
          THEN /\ rl_pc' = "done"
               /\ rl_result' = RlRaise("OSError", "events")
               /\ UNCHANGED <<rl_fs, rl_k, rl_events, rl_loaded>>
          ELSE IF \E r \in 1..Len(rl_fs[file_name].rows) :
                     parse_event(of.format, rl_fs[file_name].rows[r]).id
                        \notin DOMAIN of.selections
          THEN /\ rl_pc' = "done"
               /\ rl_result' = RlRaise("KeyError", "events")
               /\ UNCHANGED <<rl_fs, rl_k, rl_events, rl_loaded>>
          ELSE /\ rl_events' = load_events(
                      reset_selections(rl_events, of.selections, DOMAIN of.selections),
                      of.format, of.selections, rl_fs[file_name].rows)
               /\ rl_loaded' = Append(rl_loaded,
                      [kind |-> "event", k |-> rl_k, path |-> file_name,
                       mtime |-> rl_fs[file_name].mtime, cols |-> <<>>,
                       rows |-> rl_fs[file_name].rows])
               /\ rl_fs' = IF rl_in.remove_dat_files_after_load
                           THEN [p \in DOMAIN rl_fs \ {file_name} |-> rl_fs[p]]
                           ELSE rl_fs
               /\ rl_k' = rl_k + 1
               /\ UNCHANGED <<rl_pc, rl_result>>
    /\ UNCHANGED <<rl_in, rl_sim, rl_fs0, rl_traces>>
    /\ UNCHANGED otherThanReload

\* the event files are done: output_files = sim.findall("OutputFile")
rl_events_done ==
    /\ rl_pc = "events"
    /\ rl_k > Len(rl_sim.events)
    /\ rl_pc' = "outputs"
    /\ rl_k' = 1
    /\ UNCHANGED <<rl_in, rl_sim, rl_fs, rl_fs0, rl_traces, rl_events, rl_loaded, rl_result>>
    /\ UNCHANGED otherThanReload

\* one OutputFile: traces["t"] = []; the file is looked for and its
\* modification time compared with t_run; its columns are reset, its lines
\* read, and it is removed if asked
rl_output_file ==
    /\ rl_pc = "outputs"
    /\ rl_k <= Len(rl_sim.outputs)
    /\ LET of        == rl_sim.outputs[rl_k]
           file_name == resolve(rl_fs, output_candidates(rl_in.base_dir,
                                           rl_in.lems_file_name, of.fileName))
           cols      == cols_of(of.columns)
       IN IF ~isfile(rl_fs, file_name)
          THEN /\ rl_pc' = "done"
               /\ rl_result' = RlRaise("OSError", "outputs")
               /\ UNCHANGED <<rl_fs, rl_k, rl_traces, rl_loaded>>
          ELSE IF is_stale(rl_fs[file_name].mtime, rl_in.t_run)
          THEN /\ rl_pc' = "done"
               /\ rl_result' = RlRaise("Stale", "outputs")
               /\ UNCHANGED <<rl_fs, rl_k, rl_traces, rl_loaded>>
          ELSE IF \E r \in 1..Len(rl_fs[file_name].rows) :
                     Len(rl_fs[file_name].rows[r]) > Len(cols)
          THEN /\ rl_pc' = "done"
               /\ rl_result' = RlRaise("IndexError", "outputs")
               /\ UNCHANGED <<rl_fs, rl_k, rl_traces, rl_loaded>>
          ELSE /\ rl_traces' = load_rows(
                      reset_columns(DictSet(rl_traces, "t", <<>>), of.columns),
                      cols, rl_fs[file_name].rows)
               /\ rl_loaded' = Append(rl_loaded,
                      [kind |-> "output", k |-> rl_k, path |-> file_name,
                       mtime |-> rl_fs[file_name].mtime, cols |-> of.columns,
                       rows |-> rl_fs[file_name].rows])
               /\ rl_fs' = IF rl_in.remove_dat_files_after_load
                           THEN [p \in DOMAIN rl_fs \ {file_name} |-> rl_fs[p]]
                           ELSE rl_fs
               /\ rl_k' = rl_k + 1
               /\ UNCHANGED <<rl_pc, rl_result>>
    /\ UNCHANGED <<rl_in, rl_sim, rl_fs0, rl_events>>
    /\ UNCHANGED otherThanReload

\* return traces, events if reload_events else traces
rl_return ==
    /\ rl_pc = "outputs"
    /\ rl_k > Len(rl_sim.outputs)
    /\ rl_pc' = "done"
    /\ rl_result' = IF rl_in.reload_events
                    THEN RlReturn(rl_traces, rl_events, TRUE)
                    ELSE RlReturn(rl_traces, EmptyDict, FALSE)
    /\ UNCHANGED <<rl_in, rl_sim, rl_fs, rl_fs0, rl_k, rl_traces, rl_events, rl_loaded>>
    /\ UNCHANGED otherThanReload

ReloadNext ==
    \/ rl_parse
    \/ rl_event_file
    \/ rl_events_done
    \/ rl_output_file
    \/ rl_return


\* an OutputFile / EventOutputFile element of the Simulation
OutputDecl(k, columns) == [fileName |-> OutputNames[k], columns |-> columns]
EventDecl(k, format) ==
    [fileName |-> EventNames[k], format |-> format, selections |-> Selections]

\* the LEMS file at the given path
LemsFile(path) == [path |-> path, mtime |-> 1, rows |-> <<>>]

\* the arguments of reload_saved_data
ReloadArgs(lems_file_name, base_dir, t_run, reload_events, remove) ==
    [lems_file_name |-> lems_file_name, base_dir |-> base_dir, t_run |-> t_run,
     reload_events |-> reload_events, remove_dat_files_after_load |-> remove]

\* the directories a data file may lie in
DataDirs(base_dir, lems_file_name) ==
    { Cwd \o base_dir, Cwd \o base_dir \o dirname(lems_file_name),
      Cwd \o dirname(lems_file_name), Cwd, Cwd \o <<"NeuroML2", "results">> }

\* where things lie: one fresh output file and one fresh event file, any
\* LEMS file name, base_dir and places of the files
InitReloadPaths ==
    \E lems \in {<<"L.xml">>, <<"sub", "L.xml">>}, base \in {<<>>, <<"b">>},
       reload_events \in BOOLEAN, remove \in BOOLEAN :
    \E lemsAt \in SUBSET {Cwd \o lems, Cwd \o base \o lems},
       outDirs \in SUBSET DataDirs(base, lems),
       evDirs \in SUBSET {Cwd \o base, Cwd \o dirname(lems), Cwd \o base \o dirname(lems)} :
        ReloadStart(
            ReloadArgs(lems, base, MaxTime, reload_events, remove),
            [events |-> <<EventDecl(1, "TIME_ID")>>, outputs |-> <<OutputDecl(1, <<"v">>)>>],
            MkFs({LemsFile(p) : p \in lemsAt}
                 \cup {[path |-> d \o <<OutputNames[1]>>, mtime |-> MaxTime,
                        rows |-> RowsOf(1, <<2>>)] : d \in outDirs}
                 \cup {[path |-> d \o <<EventNames[1]>>, mtime |-> MaxTime,
                        rows |-> EventRowsOf("TIME_ID", EventsOf(1))] : d \in evDirs}))

\* when things were written: every file beside the LEMS file, any
\* modification times and run time
InitReloadStale ==
    \E n \in 0..MaxOutputFiles, m \in 0..MaxEventFiles, t_run \in 1..MaxTime,
       reload_events \in BOOLEAN, remove \in BOOLEAN :
    \E ot \in [1..n -> 1..MaxTime], et \in [1..m -> 1..MaxTime] :
        ReloadStart(
            ReloadArgs(<<"L.xml">>, <<>>, t_run, reload_events, remove),
            [events |-> [k \in 1..m |-> EventDecl(k, "TIME_ID")],
             outputs |-> [k \in 1..n |-> OutputDecl(k, <<"v">>)]],
            MkFs({LemsFile(Cwd \o <<"L.xml">>)}
                 \cup {[path |-> Cwd \o <<OutputNames[k]>>, mtime |-> ot[k],
                        rows |-> RowsOf(k, <<2>>)] : k \in 1..n}
                 \cup {[path |-> Cwd \o <<EventNames[k]>>, mtime |-> et[k],
                        rows |-> EventRowsOf("TIME_ID", EventsOf(k))] : k \in 1..m}))

\* the OutputColumn quantities of an OutputFile
ColumnDecls == {<<>>, <<"v">>, <<"v", "u">>, <<"v", "v">>, <<"t">>}

\* the lines of the k-th output file: n lines, each with one number for the
\* time and for every column (extra = 0), or one fewer, or one more
RowShape(k, columns, n, extra) ==
    RowsOf(k, [r \in 1..n |-> Len(columns) + 1 + extra])

\* what the files hold: fresh files beside the LEMS file, any columns and
\* lines, either event format
InitReloadData ==
    \E n \in 1..MaxOutputFiles, reload_events \in BOOLEAN,
       format \in {"TIME_ID", "ID_TIME"} :
    \E columns \in [1..n -> ColumnDecls], ns \in [1..n -> 0..MaxRows],
       extra \in [1..n -> {-1, 0, 1}] :
        ReloadStart(
            ReloadArgs(<<"L.xml">>, <<>>, MaxTime, reload_events, FALSE),
            [events |-> <<EventDecl(1, format)>>,
             outputs |-> [k \in 1..n |-> OutputDecl(k, columns[k])]],
            MkFs({LemsFile(Cwd \o <<"L.xml">>)}
                 \cup {[path |-> Cwd \o <<OutputNames[k]>>, mtime |-> MaxTime,
                        rows |-> RowShape(k, columns[k], ns[k], extra[k])] : k \in 1..n}
                 \cup {[path |-> Cwd \o <<EventNames[1]>>, mtime |-> MaxTime,
                        rows |-> EventRowsOf(format, EventsOf(1))]}))

(***************************************************************************)
(* run_lems_with_eden                                                      *)
(***************************************************************************)

\* what eden_simulator.runEden may return: a mapping from quantity to values
EdenResults ==
    { EmptyDict,
      [q \in {"t"} |-> <<0, 1>>],
      [q \in {"t", "pop/0/v"} |-> IF q = "t" THEN <<0, 1>> ELSE <<-65, -64>>] }

\* the value run_lems_with_eden returns
EdenTrue          == [kind |-> "return", form |-> "bool", results |-> EmptyDict,
                      events |-> EmptyDict, exc |-> "none"]
EdenMapping(res)  == [kind |-> "return", form |-> "mapping", results |-> res,
                      events |-> EmptyDict, exc |-> "none"]
EdenPair(res, ev) == [kind |-> "return", form |-> "pair", results |-> res,
                      events |-> ev, exc |-> "none"]
EdenRaise(exc)    == [kind |-> "raise", form |-> "none", results |-> EmptyDict,
                      events |-> EmptyDict, exc |-> exc]
EdenNoResult      == [kind |-> "none", form |-> "none", results |-> EmptyDict,
                      events |-> EmptyDict, exc |-> "none"]

EdenInit ==
    /\ e_pc = "start"
    /\ e_args \in [lems_file_name : {LemsNames[1], LemsNames[2]}, load_saved_data : BOOLEAN,
                   reload_events : BOOLEAN, verbose : BOOLEAN]
    /\ e_env \in [installed : BOOLEAN, fails : BOOLEAN, results : EdenResults]
    /\ e_results = EmptyDict
    /\ e_log = <<>>
    /\ e_result = EdenNoResult

EdenIdle ==
    /\ e_pc = "off"
    /\ e_args = [lems_file_name |-> "LEMS1.xml", load_saved_data |-> FALSE,
                 reload_events |-> FALSE, verbose |-> FALSE]
    /\ e_env = [installed |-> FALSE, fails |-> FALSE, results |-> EmptyDict]
    /\ e_results = EmptyDict
    /\ e_log = <<>>
    /\ e_result = EdenNoResult

\* import eden_simulator; logger.info("Running a simulation of ...")
eden_import ==
    /\ e_pc = "start"
    /\ IF e_env.installed
       THEN /\ e_pc' = "imported"
            /\ e_log' = Append(e_log, [level |-> "info", msg |-> "Running"])
            /\ UNCHANGED e_result
       ELSE /\ e_pc' = "done"
            /\ e_result' = EdenRaise("ImportError")
            /\ UNCHANGED e_log
    /\ UNCHANGED <<e_args, e_env, e_results>>
    /\ UNCHANGED otherThanEden

\* results = eden_simulator.runEden(lems_file_name)
eden_run ==
    /\ e_pc = "imported"
    /\ IF e_env.fails
       THEN /\ e_pc' = "done"
            /\ e_result' = EdenRaise("RuntimeError")
            /\ UNCHANGED e_results
       ELSE /\ e_pc' = "ran"
            /\ e_results' = e_env.results
            /\ UNCHANGED e_result
    /\ UNCHANGED <<e_args, e_env, e_log>>
    /\ UNCHANGED otherThanEden

\* the warning logged before the return, if any
eden_warning(load_saved_data, reload_events) ==
    IF load_saved_data
    THEN <<[level |-> "warning", msg |-> "Event saving is not yet supported in EDEN!!"]>>
    ELSE <<>>

\* if load_saved_data: return results, {}
\* elif load_saved_data: return results
\* else: return True
eden_return_value(load_saved_data, reload_events, results) ==
    IF load_saved_data THEN EdenPair(results, EmptyDict)
    ELSE IF load_saved_data THEN EdenMapping(results)
    ELSE EdenTrue

\* the verbose report, then the return
eden_return ==
    /\ e_pc = "ran"
    /\ e_pc' = "done"
    /\ e_log' = e_log
                \o (IF e_args.verbose
                    THEN <<[level |-> "info", msg |-> "Completed simulation in EDEN"]>>
                    ELSE <<>>)
                \o eden_warning(e_args.load_saved_data, e_args.reload_events)
    /\ e_result' = eden_return_value(e_args.load_saved_data, e_args.reload_events,
                                     e_results)
    /\ UNCHANGED <<e_args, e_env, e_results>>
    /\ UNCHANGED otherThanEden

EdenNext ==
    \/ eden_import
    \/ eden_run
    \/ eden_return

(***************************************************************************)
(* generate_sim_scripts_in_folder                                          *)
(*                                                                         *)
(* A file name is the sequence of its components ("cells/c.nml" is         *)
(* <<"cells", "c.nml">>).  What pyneuroml.utils and the file system answer *)
(* is given with the call, in g_env.                                       *)
(***************************************************************************)

\* most files of a model file list
MaxModelFiles == 2

\* len(model_file.split("/")) > 1
has_directories(model_file) == Len(model_file) > 1

\* "../" in model_file
parent_reference(model_file) ==
    \E i \in 1..(Len(model_file) - 1) : model_file[i] = ".."

\* len(Path(lems_file_name).parts) > 1
has_parts(lems_file_name) == Len(lems_file_name) > 1

supported_engines == {"jneuroml_neuron", "jneuroml_netpyne"}

\* tdir, the path get_pyneuroml_tempdir gives under run_dir
tempdir(run_dir) == run_dir \o <<"pyneuroml_tmp">>

\* the files a model file list is made of
ModelFiles ==
    { <<"a.nml">>, <<"cells", "c.nml">>, <<"..", "x.nml">>, <<"cells", "..", "y.nml">> }

\* the model file lists
ModelFileLists ==
    UNION { [1..n -> ModelFiles] : n \in 0..MaxModelFiles }

GenReturn(v) == [kind |-> "return", value |-> v, exc |-> "none"]
GenRaise(e)  == [kind |-> "raise", value |-> <<>>, exc |-> e]
GenExit      == [kind |-> "exit", value |-> <<>>, exc |-> "SystemExit"]
GenNoResult  == [kind |-> "none", value |-> <<>>, exc |-> "none"]

GenInit ==
    /\ g_pc = "start"
    /\ g_in \in [engine : {"jneuroml_neuron", "jneuroml_netpyne", "jneuroml"},
                 lems_file_name : {<<"L.xml">>, <<"sub", "L.xml">>},
                 run_dir : {<<>>, <<"run">>}]
    /\ \E list \in ModelFileLists, generated \in {<<>>, <<<<"L_nrn.py">>, <<"m.mod">>>>} :
       \E copy_fails_at \in 0..Len(list), move_fails_at \in 0..Len(generated) :
       \E run \in {"return", "exit", "raise"} :
           g_env = [model_file_list |-> list, copy_fails_at |-> copy_fails_at,
                    run |-> run, generated |-> generated,
                    move_fails_at |-> move_fails_at]
    /\ g_cwd = Cwd
    /\ g_tdir = FALSE
    /\ g_dirs = {}
    /\ g_copied = <<>>
    /\ g_k = 1
    /\ g_moved = <<>>
    /\ g_result = GenNoResult

GenIdle ==
    /\ g_pc = "off"
    /\ g_in = [engine |-> "jneuroml", lems_file_name |-> <<"L.xml">>, run_dir |-> <<>>]
    /\ g_env = [model_file_list |-> <<>>, copy_fails_at |-> 0, run |-> "return",
                generated |-> <<>>, move_fails_at |-> 0]
    /\ g_cwd = Cwd
    /\ g_tdir = FALSE
    /\ g_dirs = {}
    /\ g_copied = <<>>
    /\ g_k = 1
    /\ g_moved = <<>>
    /\ g_result = GenNoResult

\* an unsupported engine is reported and None returned; else the temporary
\* directory is made
gen_mkdir ==
    /\ g_pc = "start"
    /\ IF g_in.engine \notin supported_engines
       THEN /\ g_pc' = "done"
            /\ g_result' = GenReturn(<<"None">>)
            /\ UNCHANGED g_tdir
       ELSE /\ g_pc' = "made"
            /\ g_tdir' = TRUE
            /\ UNCHANGED g_result
    /\ UNCHANGED <<g_in, g_env, g_cwd, g_dirs, g_copied, g_k, g_moved>>
    /\ UNCHANGED otherThanGen

\* a lems_file_name with directories in it is turned away; else the model
\* file list is got
gen_list ==
    /\ g_pc = "made"
    /\ IF has_parts(g_in.lems_file_name)
       THEN /\ g_pc' = "done"
            /\ g_result' = GenRaise("RuntimeError")
       ELSE /\ g_pc' = "copy"
            /\ UNCHANGED g_result
    /\ UNCHANGED <<g_in, g_env, g_cwd, g_tdir, g_dirs, g_copied, g_k, g_moved>>
    /\ UNCHANGED otherThanGen

\* one model file: with directories in its name, a parent reference raises
\* ValueError and else its directory is made under tdir; then it is copied
gen_copy ==
    /\ g_pc = "copy"
    /\ g_k <= Len(g_env.model_file_list)
    /\ LET model_file == g_env.model_file_list[g_k] IN
       IF has_directories(model_file) /\ parent_reference(model_file)
       THEN /\ g_pc' = "done"
            /\ g_result' = GenRaise("ValueError")
            /\ UNCHANGED <<g_dirs, g_copied, g_k>>
       ELSE /\ g_dirs' = IF has_directories(model_file)
                         THEN g_dirs \cup {SubSeq(model_file, 1, Len(model_file) - 1)}
                         ELSE g_dirs
            /\ IF g_env.copy_fails_at = g_k
               THEN /\ g_pc' = "done"
                    /\ g_result' = GenRaise("OSError")
                    /\ UNCHANGED <<g_copied, g_k>>
               ELSE /\ g_copied' = Append(g_copied, model_file)
                    /\ g_k' = g_k + 1
                    /\ UNCHANGED <<g_pc, g_result>>
    /\ UNCHANGED <<g_in, g_env, g_cwd, g_tdir, g_moved>>
    /\ UNCHANGED otherThanGen

\* cwd = Path.cwd(); os.chdir(tdir)
gen_chdir ==
    /\ g_pc = "copy"
    /\ g_k > Len(g_env.model_file_list)
    /\ g_pc' = "run"
    /\ g_cwd' = Cwd \o tempdir(g_in.run_dir)
    /\ UNCHANGED <<g_in, g_env, g_tdir, g_dirs, g_copied, g_k, g_moved, g_result>>
    /\ UNCHANGED otherThanGen

\* run_lems_with(engine, ..., only_generate_scripts=True, ...): it returns,
\* raises, or exits the process (exit_on_fail); then the generated files
\* are listed, with the model files after them for jneuroml_netpyne
gen_run ==
    /\ g_pc = "run"
    /\ IF g_env.run = "return"
       THEN /\ g_pc' = "move"
            /\ g_k' = 1
            /\ UNCHANGED g_result
       ELSE /\ g_pc' = "done"
            /\ g_result' = IF g_env.run = "exit" THEN GenExit ELSE GenRaise("Exception")
            /\ UNCHANGED g_k
    /\ UNCHANGED <<g_in, g_env, g_cwd, g_tdir, g_dirs, g_copied, g_moved>>
    /\ UNCHANGED otherThanGen

\* generated_files
generated_files(engine, generated, model_file_list) ==
    IF engine = "jneuroml_netpyne" THEN generated \o model_file_list ELSE generated

\* os.renames(fpath, moved_path) for one generated file
gen_move ==
    /\ g_pc = "move"
    /\ g_k <= Len(generated_files(g_in.engine, g_env.generated, g_env.model_file_list))
    /\ IF g_env.move_fails_at = g_k
       THEN /\ g_pc' = "done"
            /\ g_result' = GenRaise("OSError")
            /\ UNCHANGED <<g_moved, g_k>>
       ELSE /\ g_moved' = Append(g_moved,
                   generated_files(g_in.engine, g_env.generated, g_env.model_file_list)[g_k])
            /\ g_k' = g_k + 1
            /\ UNCHANGED <<g_pc, g_result>>
    /\ UNCHANGED <<g_in, g_env, g_cwd, g_tdir, g_dirs, g_copied>>
    /\ UNCHANGED otherThanGen

\* os.chdir(str(cwd)); return tdir
gen_return ==
    /\ g_pc = "move"
    /\ g_k > Len(generated_files(g_in.engine, g_env.generated, g_env.model_file_list))
    /\ g_pc' = "done"
    /\ g_cwd' = Cwd
    /\ g_result' = GenReturn(tempdir(g_in.run_dir))
    /\ UNCHANGED <<g_in, g_env, g_tdir, g_dirs, g_copied, g_k, g_moved>>
    /\ UNCHANGED otherThanGen

GenNext ==
    \/ gen_mkdir
    \/ gen_list
    \/ gen_copy
    \/ gen_chdir
    \/ gen_run
    \/ gen_move
    \/ gen_return

(***************************************************************************)
(* run_jneuroml_with_realtime_output and                                   *)
(* execute_command_in_dir_with_realtime_output                             *)
(*                                                                         *)
(* The child process is "none" before subprocess.Popen returns, then       *)
(* "running", and at last "exited" or "killed".  A KeyboardInterrupt may   *)
(* arrive at any statement.                                                *)
(***************************************************************************)

\* most lines the child writes
MaxLines == 3

RtReturn(v) == [kind |-> "return", value |-> v, exc |-> "none", status |-> 0]
RtRaise(e)  == [kind |-> "raise", value |-> "None", exc |-> e, status |-> 0]
RtExit(st)  == [kind |-> "exit", value |-> "None", exc |-> "SystemExit", status |-> st]
RtNoResult  == [kind |-> "none", value |-> "None", exc |-> "none", status |-> 0]

RtInit ==
    /\ x_pc = "start"
    /\ x_in \in [exit_on_fail : BOOLEAN, returncode : {0, 1, 2}, lines : 0..MaxLines,
                 java : BOOLEAN]
    /\ x_child = "none"
    /\ x_lines = 0
    /\ x_int = "none"
    /\ x_trace = <<>>
    /\ x_inner = RtNoResult
    /\ x_result = RtNoResult

RtIdle ==
    /\ x_pc = "off"
    /\ x_in = [exit_on_fail |-> FALSE, returncode |-> 0, lines |-> 0, java |-> FALSE]
    /\ x_child = "none"
    /\ x_lines = 0
    /\ x_int = "none"
    /\ x_trace = <<>>
    /\ x_inner = RtNoResult
    /\ x_result = RtNoResult

\* p = subprocess.Popen(...): the child starts, or the program is not found
rt_popen ==
    /\ x_pc = "start"
    /\ IF x_in.java
       THEN /\ x_pc' = "reading"
            /\ x_child' = "running"
            /\ x_trace' = Append(x_trace, "popen")
            /\ UNCHANGED x_inner
       ELSE /\ x_pc' = "returned"
            /\ x_inner' = RtRaise("OSError")
            /\ x_trace' = Append(x_trace, "raise")
            /\ UNCHANGED x_child
    /\ UNCHANGED <<x_in, x_lines, x_int, x_result>>
    /\ UNCHANGED otherThanRt

\* for line in iter(p.stdout.readline, ""): print(...)
rt_readline ==
    /\ x_pc = "reading"
    /\ IF x_lines < x_in.lines
       THEN /\ x_lines' = x_lines + 1
            /\ x_trace' = Append(x_trace, "line")
            /\ UNCHANGED x_pc
       ELSE /\ x_pc' = "waiting"
            /\ UNCHANGED <<x_lines, x_trace>>
    /\ UNCHANGED <<x_in, x_child, x_int, x_inner, x_result>>
    /\ UNCHANGED otherThanRt

\* p.wait(): the child exits
rt_wait ==
    /\ x_pc = "waiting"
    /\ x_pc' = "check"
    /\ x_child' = "exited"
    /\ x_trace' = Append(x_trace, "exit")
    /\ UNCHANGED <<x_in, x_lines, x_int, x_inner, x_result>>
    /\ UNCHANGED otherThanRt

\* an Exception while the output is read: reported and raised again
rt_exception ==
    /\ x_pc = "reading"
    /\ x_pc' = "returned"
    /\ x_inner' = RtRaise("Exception")
    /\ x_trace' = Append(x_trace, "raise")
    /\ UNCHANGED <<x_in, x_child, x_lines, x_int, x_result>>
    /\ UNCHANGED otherThanRt

\* KeyboardInterrupt: inside the try block, `if p: p.kill()` and `raise e`;
\* before Popen returned p is None, and after the try block no handler is
\* left, so that it goes to the caller as it is
rt_interrupt ==
    /\ x_pc \in {"start", "reading", "waiting", "check"}
    /\ x_int' = x_pc
    /\ x_pc' = "returned"
    /\ x_inner' = RtRaise("KeyboardInterrupt")
    /\ IF x_pc \in {"reading", "waiting"}
       THEN /\ x_child' = "killed"
            /\ x_trace' = x_trace \o <<"kill", "raise">>
       ELSE /\ x_trace' = Append(x_trace, "raise")
            /\ UNCHANGED x_child
    /\ UNCHANGED <<x_in, x_lines, x_result>>
    /\ UNCHANGED otherThanRt

\* return p.returncode == 0
rt_check ==
    /\ x_pc = "check"
    /\ x_pc' = "returned"
    /\ x_inner' = RtReturn(IF x_in.returncode = 0 THEN "True" ELSE "False")
    /\ x_trace' = Append(x_trace, "return")
    /\ UNCHANGED <<x_in, x_child, x_lines, x_int, x_result>>
    /\ UNCHANGED otherThanRt

\* a plausible slip: no `except KeyboardInterrupt` before the bare except
realtime_result_no_interrupt_clause(inner, exit_on_fail) ==
    IF inner.kind = "return" THEN inner
    ELSE IF exit_on_fail THEN RtExit(UNKNOWN_ERR)
    ELSE RtReturn("False")

\* run_jneuroml_with_realtime_output, given what
\* execute_command_in_dir_with_realtime_output did: its value is returned,
\* a KeyboardInterrupt is raised again, and anything else raised ends in
\* sys.exit(UNKNOWN_ERR) or False
realtime_result(inner, exit_on_fail) ==
    IF inner.kind = "return" THEN inner
    ELSE IF inner.exc = "KeyboardInterrupt" THEN inner
    ELSE IF exit_on_fail THEN RtExit(UNKNOWN_ERR)
    ELSE RtReturn("False")

rt_outer ==
    /\ x_pc = "returned"
    /\ x_pc' = "done"
    /\ x_result' = realtime_result(x_inner, x_in.exit_on_fail)
    /\ UNCHANGED <<x_in, x_child, x_lines, x_int, x_trace, x_inner>>
    /\ UNCHANGED otherThanRt

RtNext ==
    \/ rt_popen
    \/ rt_readline
    \/ rt_wait
    \/ rt_exception
    \/ rt_interrupt
    \/ rt_check
    \/ rt_outer

(***************************************************************************)
(* plot/PlotMorphology.py: plot_2D and the plot_interactive_3D engines     *)
(*                                                                         *)
(* Coordinates and diameters of a segment are whole micrometres.  A width  *)
(* is kept doubled (width2 = 2 * width), so that the mean of two diameters *)
(* is a whole number; a plotted coordinate is kept in units of 1/2000 um,  *)
(* so that add_line's shift by width/1000 is the whole number width2.      *)
(***************************************************************************)

\* most segments of the cell plotted
MaxSegments == 2

Point(x, y, z, diameter) == [x |-> x, y |-> y, z |-> z, diameter |-> diameter]

\* segments: actual proximal point and distal point
SegmentInputs ==
    { [p |-> Point(0, 0, 0, 10), d |-> Point(0, 0, 0, 10)],
      [p |-> Point(0, 0, 0, 2),  d |-> Point(10, 0, 0, 2)],
      [p |-> Point(0, 0, 0, 2),  d |-> Point(0, 10, 0, 1)],
      [p |-> Point(0, 0, 0, 2),  d |-> Point(0, 0, 10, 2)],
      [p |-> Point(0, 0, 0, 2),  d |-> Point(0, 0, 0, 4)],
      [p |-> Point(1, 0, 0, 0),  d |-> Point(5, 0, 0, 0)] }

SegmentLists == UNION { [1..n -> SegmentInputs] : n \in 0..MaxSegments }

Renderers == {"plot_2D", "matplotlib", "matplotlib_surface", "plotly", "plotly_surface"}

\* values of plane2d
PlaneInputs == {"xy", "yx", "xz", "zx", "yz", "zy", "qq", "XY"}

\* the branches of the if/elif chain on plane2d that do not end in else
valid_plane_any(plane2d) == TRUE
valid_plane(plane2d) == plane2d \in {"xy", "yx", "xz", "zx", "yz", "zy"}

\* the horizontal and vertical coordinate of a point on a plane
project(plane2d, pt) ==
    CASE plane2d = "xy" -> <<pt.x, pt.y>>
      [] plane2d = "yx" -> <<pt.y, pt.x>>
      [] plane2d = "xz" -> <<pt.x, pt.z>>
      [] plane2d = "zx" -> <<pt.z, pt.x>>
      [] plane2d = "yz" -> <<pt.y, pt.z>>
      [] plane2d = "zy" -> <<pt.z, pt.y>>

Abs(n) == IF n < 0 THEN -n ELSE n

\* a plausible slip: the floor left out
clamp_width_none(width2, min_width2) == width2

\* if width < min_width: width = min_width
clamp_width(width2, min_width2) == IF width2 < min_width2 THEN min_width2 ELSE width2

\* width = (p.diameter + d.diameter)/2, doubled
mean_width2(seg) == seg.p.diameter + seg.d.diameter

\* width = max(p.diameter, d.diameter), doubled
max_width2(seg) ==
    2 * (IF seg.p.diameter >= seg.d.diameter THEN seg.p.diameter ELSE seg.d.diameter)

\* p.x == d.x and p.y == d.y and p.z == d.z and p.diameter == d.diameter
spherical(seg) ==
    seg.p.x = seg.d.x /\ seg.p.y = seg.d.y /\ seg.p.z = seg.d.z
        /\ seg.p.diameter = seg.d.diameter

Drawing(k, kind, cap, width2, resolution, xv, yv) ==
    [seg |-> k, kind |-> kind, cap |-> cap, width2 |-> width2,
     resolution |-> resolution, xv |-> xv, yv |-> yv]

\* add_line: end points less than 0.01 um apart on both axes are moved apart
\* by width/1000 and drawn with a round cap; then the line is drawn with a
\* butt cap
add_line(k, xv, yv, width2) ==
    IF Abs(xv[1] - xv[2]) < 20 /\ Abs(yv[1] - yv[2]) < 20
    THEN LET xs == <<xv[1], xv[2] + width2>>
             ys == <<yv[1], yv[2] + width2>>
         IN << Drawing(k, "line2d", "round", width2, 0, xs, ys),
               Drawing(k, "line2d", "butt", width2, 0, xs, ys) >>
    ELSE << Drawing(k, "line2d", "butt", width2, 0, xv, yv) >>

\* what each renderer draws for one segment
draw_segment(renderer, plane2d, min_width2, k, seg) ==
    CASE renderer = "plot_2D" ->
            LET a == project(plane2d, seg.p)
                b == project(plane2d, seg.d)
            IN add_line(k, <<2000 * a[1], 2000 * b[1]>>, <<2000 * a[2], 2000 * b[2]>>,
                        clamp_width(mean_width2(seg), min_width2))
      [] renderer = "matplotlib" ->
            IF spherical(seg)
            THEN <<Drawing(k, "scatter", "o", 2 * seg.p.diameter, 0, <<>>, <<>>)>>
            ELSE <<Drawing(k, "line3d", "none", mean_width2(seg), 0, <<>>, <<>>)>>
      [] renderer \in {"matplotlib_surface", "plotly_surface"} ->
            IF spherical(seg)
            THEN <<Drawing(k, "sphere_surface", "none", 0, 8, <<>>, <<>>)>>
            ELSE <<Drawing(k, "frustrum_surface", "none", 0,
                           IF seg.p.diameter = seg.d.diameter THEN 2 ELSE 3, <<>>, <<>>)>>
      [] renderer = "plotly" ->
            <<Drawing(k, "line3d", "none",
                      clamp_width(max_width2(seg), min_width2), 0, <<>>, <<>>)>>

PlotReturn   == [kind |-> "return", exc |-> "none", status |-> 0]
PlotRaise(e) == [kind |-> "raise", exc |-> e, status |-> 0]
PlotExit(st) == [kind |-> "exit", exc |-> "SystemExit", status |-> st]
PlotNoResult == [kind |-> "none", exc |-> "none", status |-> 0]

\* the population's colour ("none": pop_id not in pop_id_vs_color), the ids
\* of the segments in soma_group and in axon_group, square, and the view
\* plt.autoscale() leaves, read back by plt.xlim() and plt.ylim()
Options(pop_color, soma_segs, axon_segs, square, xl, yl) ==
    [pop_color |-> pop_color, soma_segs |-> soma_segs, axon_segs |-> axon_segs,
     square |-> square, xl |-> xl, yl |-> yl]

DefaultOptions == Options("none", {}, {}, FALSE, <<0, 20000>>, <<0, 20000>>)

NoLimits == [x |-> <<>>, y |-> <<>>]

\* the state before the first statement of a renderer
PlotStart ==
    /\ p_k = 1
    /\ p_drawn = <<>>
    /\ p_color = <<>>
    /\ p_lim = NoLimits
    /\ p_out = <<>>
    /\ p_result = PlotNoResult

PlotInit ==
    /\ p_pc = "start"
    /\ \E renderer \in Renderers, segs \in SegmentLists, readable \in BOOLEAN,
          nogui \in BOOLEAN, save_to_file \in {"None", "", "out.png"} :
       \E plane2d \in (IF renderer = "plot_2D" THEN PlaneInputs ELSE {"xy"}),
          min_width2 \in (IF renderer \in {"plot_2D", "plotly"} THEN {0, 3, 8} ELSE {0}) :
           p_in = [renderer |-> renderer, plane2d |-> plane2d, min_width2 |-> min_width2,
                   save_to_file |-> save_to_file, nogui |-> nogui,
                   readable |-> readable, segs |-> segs]
    /\ p_opt = DefaultOptions
    /\ PlotStart

\* cells whose segments are in soma_group and axon_group, with and without
\* a colour for the population
PlotColourInit ==
    /\ p_pc = "start"
    /\ \E segs \in SegmentLists, plane2d \in {"xy", "zy"}, pop_color \in {"none", "k"} :
       \E soma_segs \in SUBSET (1..Len(segs)), axon_segs \in SUBSET (1..Len(segs)) :
          /\ p_in = [renderer |-> "plot_2D", plane2d |-> plane2d, min_width2 |-> 3,
                     save_to_file |-> "None", nogui |-> TRUE, readable |-> TRUE,
                     segs |-> segs]
          /\ p_opt = Options(pop_color, soma_segs, axon_segs, FALSE,
                             <<0, 20000>>, <<0, 20000>>)
    /\ PlotStart

\* autoscaled views: spans of 0.02, 0.05, 10 and 20 um
ViewInputs == { <<0, 40>>, <<-50, 50>>, <<-10000, 10000>>, <<0, 40000>> }

\* plot_2D over the autoscaled views, square or not
PlotLimitsInit ==
    /\ p_pc = "start"
    /\ \E segs \in SegmentLists, plane2d \in {"xy", "qq"}, square \in BOOLEAN,
          xl \in ViewInputs, yl \in ViewInputs, readable \in BOOLEAN :
          /\ p_in = [renderer |-> "plot_2D", plane2d |-> plane2d, min_width2 |-> 0,
                     save_to_file |-> "None", nogui |-> TRUE, readable |-> readable,
                     segs |-> segs]
          /\ p_opt = Options("none", {}, {}, square, xl, yl)
    /\ PlotStart

PlotIdle ==
    /\ p_pc = "off"
    /\ p_in = [renderer |-> "plot_2D", plane2d |-> "xy", min_width2 |-> 0,
               save_to_file |-> "None", nogui |-> TRUE, readable |-> FALSE,
               segs |-> <<>>]
    /\ p_opt = DefaultOptions
    /\ PlotStart

\* read_neuroml2_file(nml_file)
plot_read ==
    /\ p_pc = "start"
    /\ IF p_in.readable
       THEN p_pc' = "axes" /\ UNCHANGED p_result
       ELSE p_pc' = "done" /\ p_result' = PlotRaise("OSError")
    /\ UNCHANGED <<p_in, p_opt, p_k, p_drawn, p_color, p_lim, p_out>>
    /\ UNCHANGED otherThanPlot

\* the figure and its axes; plot_2D labels the axes by plane2d and exits
\* with -1 on any other value
plot_axes ==
    /\ p_pc = "axes"
    /\ IF p_in.renderer = "plot_2D" /\ ~valid_plane(p_in.plane2d)
       THEN p_pc' = "done" /\ p_result' = PlotExit(-1)
       ELSE p_pc' = "segments" /\ UNCHANGED p_result
    /\ UNCHANGED <<p_in, p_opt, p_k, p_drawn, p_color, p_lim, p_out>>
    /\ UNCHANGED otherThanPlot

\* the colour plot_2D draws segment seg_id with: 'b', replaced by the
\* population's colour if it has one, else by 'g' if the segment is in
\* soma_group and then by 'r' if it is in axon_group
pick_color(pop_color, seg_id, soma_segs, axon_segs) ==
    LET color0 == "b"
        color1 == IF seg_id \in soma_segs THEN "g" ELSE color0
        color2 == IF seg_id \in axon_segs THEN "r" ELSE color1
    IN IF pop_color # "none" THEN pop_color ELSE color2

\* the colour each renderer gives a segment
segment_color(renderer, pop_color, seg_id, soma_segs, axon_segs, seg) ==
    CASE renderer = "plot_2D" -> pick_color(pop_color, seg_id, soma_segs, axon_segs)
      [] renderer = "plotly" -> "blue"
      [] OTHER -> IF spherical(seg) THEN "red" ELSE "blue"

\* one segment of the cell is drawn; in plot_2D the chain on plane2d ends
\* in `raise Exception`
plot_segment ==
    /\ p_pc = "segments"
    /\ p_k <= Len(p_in.segs)
    /\ IF p_in.renderer = "plot_2D"
          /\ p_in.plane2d \notin {"xy", "yx", "xz", "zx", "yz", "zy"}
       THEN /\ p_pc' = "done"
            /\ p_result' = PlotRaise("Exception")
            /\ UNCHANGED <<p_k, p_drawn, p_color>>
       ELSE /\ p_drawn' = p_drawn \o draw_segment(p_in.renderer, p_in.plane2d,
                                                  p_in.min_width2, p_k, p_in.segs[p_k])
            /\ p_color' = Append(p_color,
                    segment_color(p_in.renderer, p_opt.pop_color, p_k,
                                  p_opt.soma_segs, p_opt.axon_segs, p_in.segs[p_k]))
            /\ p_k' = p_k + 1
            /\ UNCHANGED <<p_pc, p_result>>
    /\ UNCHANGED <<p_in, p_opt, p_lim, p_out>>
    /\ UNCHANGED otherThanPlot

\* what is written and shown at the end: the matplotlib renderers save and
\* then show, the plotly ones show and then write
plot_output(renderer, save_to_file, nogui) ==
    LET save == IF save_to_file \notin {"None", ""}
                THEN <<[act |-> "save", file |-> save_to_file]>> ELSE <<>>
        show == IF ~nogui THEN <<[act |-> "show", file |-> ""]>> ELSE <<>>
    IN IF renderer \in {"plotly", "plotly_surface"} THEN show \o save ELSE save \o show

Span(l) == l[2] - l[1]

\* the limits of the axes after plt.autoscale(): a view under 0.1 um on
\* both axes becomes [-100, 100] on both; one under 0.1 um on one axis gets
\* a tenth of the other axis's span on each side of its middle; then, if
\* square, the axis whose autoscaled span is the smaller gets half the
\* other's autoscaled span on each side of its autoscaled middle.  Limits
\* are in units of 1/2000 um; the views drawn from ViewInputs divide
\* exactly
set_limits(xl, yl, square) ==
    LET small == 200
        auto == [x |-> xl, y |-> yl]
        mid(l) == l[1] + Span(l) \div 2
        degenerate ==
            IF Span(xl) < small /\ Span(yl) < small
            THEN [x |-> <<-200000, 200000>>, y |-> <<-200000, 200000>>]
            ELSE IF Span(xl) < small
            THEN [auto EXCEPT !.x = <<mid(xl) - Span(yl) \div 10, mid(xl) + Span(yl) \div 10>>]
            ELSE IF Span(yl) < small
            THEN [auto EXCEPT !.y = <<mid(yl) - Span(xl) \div 10, mid(yl) + Span(xl) \div 10>>]
            ELSE auto
        squared_y ==
            IF Span(xl) > Span(yl)
            THEN [degenerate EXCEPT !.y = <<mid(yl) - Span(xl) \div 2, mid(yl) + Span(xl) \div 2>>]
            ELSE degenerate
        squared ==
            IF Span(xl) < Span(yl)
            THEN [squared_y EXCEPT !.x = <<mid(xl) - Span(yl) \div 2, mid(xl) + Span(yl) \div 2>>]
            ELSE squared_y
    IN IF square THEN squared ELSE degenerate

plot_finish ==
    /\ p_pc = "segments"
    /\ p_k > Len(p_in.segs)
    /\ p_pc' = "done"
    /\ p_lim' = IF p_in.renderer = "plot_2D"
                 THEN set_limits(p_opt.xl, p_opt.yl, p_opt.square)
                 ELSE p_lim
    /\ p_out' = plot_output(p_in.renderer, p_in.save_to_file, p_in.nogui)
    /\ p_result' = PlotReturn
    /\ UNCHANGED <<p_in, p_opt, p_k, p_drawn, p_color>>
    /\ UNCHANGED otherThanPlot

PlotNext ==
    \/ plot_read
    \/ plot_axes
    \/ plot_segment
    \/ plot_finish

(***************************************************************************)
(* plot/PlotMorphology.py: get_frustrum_surface                            *)
(*                                                                         *)
(* The centres have whole coordinates.  A unit vector is kept as the       *)
(* vector it is the positive multiple of: whether two vectors are          *)
(* perpendicular and whether a cross product is zero do not depend on the  *)
(* lengths, and axis_vector / axis_mag has the components 1, 0, 0 exactly  *)
(* when axis_vector is (k, 0, 0) with k > 0.                               *)
(***************************************************************************)

\* the largest coordinate of a centre, either sign
MaxCoord == 1

Coords == (0 - MaxCoord)..MaxCoord

\* np.cross(a, b)
cross(a, b) ==
    << a[2] * b[3] - a[3] * b[2], a[3] * b[1] - a[1] * b[3], a[1] * b[2] - a[2] * b[1] >>

\* np.dot(a, b)
dot(a, b) == a[1] * b[1] + a[2] * b[2] + a[3] * b[3]

ZeroVector == <<0, 0, 0>>

\* (axis_unit_vector == np.array([1, 0, 0])).all()
is_x_unit(axis_vector) == axis_vector[1] > 0 /\ axis_vector[2] = 0 /\ axis_vector[3] = 0

\* somev: [1, 0, 0], or [0, 1, 0] if the axis unit vector equals [1, 0, 0]
somev(axis_vector) == IF is_x_unit(axis_vector) THEN <<0, 1, 0>> ELSE <<1, 0, 0>>

\* the vectors get_frustrum_surface derives from the two centres; a
\* division by a zero norm gives nan components
frustrum_vectors(p_proximal, p_distal) ==
    LET axis_vector == << p_distal[1] - p_proximal[1], p_distal[2] - p_proximal[2],
                          p_distal[3] - p_proximal[3] >>
        perpv1 == cross(axis_vector, somev(axis_vector))
        perpv2 == cross(axis_vector, perpv1)
    IN [axis   |-> axis_vector,
        somev  |-> somev(axis_vector),
        perpv1 |-> perpv1,
        perpv2 |-> perpv2,
        nan    |-> axis_vector = ZeroVector \/ perpv1 = ZeroVector]

NoVectors == [axis |-> ZeroVector, somev |-> ZeroVector, perpv1 |-> ZeroVector,
              perpv2 |-> ZeroVector, nan |-> FALSE]

FrusInit ==
    /\ f_pc = "start"
    /\ f_in \in [p_proximal : Coords \X Coords \X Coords,
                 p_distal   : Coords \X Coords \X Coords]
    /\ f_out = NoVectors

FrusIdle ==
    /\ f_pc = "off"
    /\ f_in = [p_proximal |-> ZeroVector, p_distal |-> ZeroVector]
    /\ f_out = NoVectors

get_frustrum_surface ==
    /\ f_pc = "start"
    /\ f_out' = frustrum_vectors(f_in.p_proximal, f_in.p_distal)
    /\ f_pc' = "done"
    /\ UNCHANGED f_in
    /\ UNCHANGED otherThanFrus

FrusNext == get_frustrum_surface

(***************************************************************************)
(* Specifications: one for each function, the others idle                  *)
(***************************************************************************)

\* every function but the named one is idle
IdleBut(f) ==
    /\ IF f = "disp" THEN TRUE ELSE DispIdle
    /\ IF f = "batch" THEN TRUE ELSE BatchIdle
    /\ IF f = "run" THEN TRUE ELSE RunIdle
    /\ IF f = "reload" THEN TRUE ELSE ReloadIdle
    /\ IF f = "eden" THEN TRUE ELSE EdenIdle
    /\ IF f = "gen" THEN TRUE ELSE GenIdle
    /\ IF f = "rt" THEN TRUE ELSE RtIdle
    /\ IF f = "plot" THEN TRUE ELSE PlotIdle
    /\ IF f = "frus" THEN TRUE ELSE FrusIdle

InitDispatch == DispInit /\ IdleBut("disp")
SpecDispatch == InitDispatch /\ [][DispNext]_vars

InitBatch == BatchInit /\ IdleBut("batch")
SpecBatch == InitBatch /\ [][BatchNext]_vars

InitRun == RunInit /\ IdleBut("run")
SpecRun == InitRun /\ [][RunNext]_vars

InitNeuronPath == NeuronPathInit /\ IdleBut("run")
SpecNeuronPath == InitNeuronPath /\ [][NeuronPathNext]_vars

InitPaths == InitReloadPaths /\ IdleBut("reload")
SpecReloadPaths == InitPaths /\ [][ReloadNext]_vars

InitStale == InitReloadStale /\ IdleBut("reload")
SpecReloadStale == InitStale /\ [][ReloadNext]_vars

InitData == InitReloadData /\ IdleBut("reload")
SpecReloadData == InitData /\ [][ReloadNext]_vars

InitEden == EdenInit /\ IdleBut("eden")
SpecEden == InitEden /\ [][EdenNext]_vars

InitGen == GenInit /\ IdleBut("gen")
SpecGen == InitGen /\ [][GenNext]_vars

InitRt == RtInit /\ IdleBut("rt")
SpecRt == InitRt /\ [][RtNext]_vars

InitPlot == PlotInit /\ IdleBut("plot")
SpecPlot == InitPlot /\ [][PlotNext]_vars

InitFrus == FrusInit /\ IdleBut("frus")
SpecFrus == InitFrus /\ [][FrusNext]_vars

InitPlotColour == PlotColourInit /\ IdleBut("plot")
SpecPlotColour == InitPlotColour /\ [][PlotNext]_vars

InitPlotLimits == PlotLimitsInit /\ IdleBut("plot")
SpecPlotLimits == InitPlotLimits /\ [][PlotNext]_vars

(***************************************************************************)
(* Properties                                                              *)
(***************************************************************************)

\* name = x + e for some string x
IsNameSuffix(e, name) ==
    \E k \in 0..Len(name) : [i \in 1..(Len(name) - k) |-> name[k + i]] = e

\* name = "run_lems_with" + x for some string x
IsRunLemsWithName(name) ==
    \E k \in 0..Len(name) : [i \in 1..k |-> name[i]] = RunLemsWithPrefix

\* engine is the name suffix of no function whose name starts with
\* run_lems_with
NoEngineFunction(engine) ==
    \A k \in 1..Len(function_tuple) :
        ~(IsRunLemsWithName(function_tuple[k]) /\ IsNameSuffix(engine, function_tuple[k]))

\* C1: run_lems_with called with an engine string that is the name suffix of
\* no run_lems_with* function invokes no function, raises nothing, and
\* returns False.
C1_UnmatchedEngineReturnsFalse ==
    (d_pc # "off" /\ NoEngineFunction(d_engine)) =>
        /\ d_called = <<>>
        /\ d_result.kind # "raise"
        /\ d_pc = "done" => d_result = [kind |-> "return", value |-> "False"]

\* C1 witness: a call with an unmatched engine has returned False
C1_Witness ==
    /\ d_pc = "done"
    /\ NoEngineFunction(d_engine)
    /\ d_engine # <<>>
    /\ d_result = [kind |-> "return", value |-> "False"]

\* C2 (the claim as stated): when run_multiple_lems_with ends at an entry
\* whose engine matches no run_lems_with_* function, it has raised nothing,
\* logged an error and returned {}, for every sims_spec.
C2_UnmatchedEngineReturnsEmpty ==
    (/\ b_pc \in {"returned", "raised"}
     /\ b_i <= Len(b_sims)
     /\ NoEngineFunction(b_sims[b_i].engine)) =>
        /\ b_ret.kind = "return"
        /\ b_ret.value = EmptyDict
        /\ b_log # <<>>

\* C3: when every entry of sims_spec names a valid engine and
\* run_multiple_lems_with returns, every submitted job has completed and the
\* returned mapping has exactly the keys of sims_spec (N entries), each bound
\* to the job submitted for that simulation, whatever the completion order.
C3_BatchComplete ==
    (/\ b_pc = "returned"
     /\ \A k \in 1..Len(b_sims) : ~NoEngineFunction(b_sims[k].engine)) =>
        /\ b_ret.kind = "return"
        /\ \A j \in 1..Len(b_jobs) : b_jobs[j].state = "done"
        /\ Len(b_jobs) = Len(b_sims)
        /\ DOMAIN b_ret.value = {b_sims[k].name : k \in 1..Len(b_sims)}
        /\ Cardinality(DOMAIN b_ret.value) = Len(b_sims)
        /\ \A k \in 1..Len(b_sims) :
              b_jobs[b_ret.value[b_sims[k].name]].lems_file_name = b_sims[k].name

\* C3 witness: a batch of two valid entries has returned after its jobs
\* completed in the order opposite to their submission
C3_Witness ==
    /\ b_pc = "returned"
    /\ Len(b_sims) = 2
    /\ \A k \in 1..Len(b_sims) : ~NoEngineFunction(b_sims[k].engine)
    /\ b_done = <<2, 1>>
    /\ Cardinality(DOMAIN b_ret.value) = 2

\* the k-th OutputFile has been dealt with: loaded, or the call raised at it
OutputProcessed(k) ==
    \/ rl_pc = "outputs" /\ rl_k > k
    \/ rl_pc = "done" /\ rl_result.kind = "return"
    \/ rl_pc = "done" /\ rl_result.kind = "raise" /\ rl_result.at = "outputs" /\ rl_k >= k

\* the call raised the given error at the k-th OutputFile
OutputRaised(k, exc) ==
    /\ rl_pc = "done" /\ rl_result.kind = "raise" /\ rl_result.at = "outputs"
    /\ rl_k = k /\ rl_result.exc = exc

\* the k-th OutputFile was loaded from the given path
OutputLoadedFrom(k, path) ==
    \E i \in 1..Len(rl_loaded) :
        rl_loaded[i].kind = "output" /\ rl_loaded[i].k = k /\ rl_loaded[i].path = path

\* the one file of the given name on disk when the call began
FileNamed(name) == CHOOSE p \in DOMAIN rl_fs0 : p[Len(p)] = name

ParsedLemsFile ==
    IF Cwd \o rl_in.lems_file_name \in DOMAIN rl_fs0
    THEN Cwd \o rl_in.lems_file_name
    ELSE Cwd \o rl_in.base_dir \o rl_in.lems_file_name

\* the places C5 gives for a file name, in order
C5Candidates(name) ==
    << Cwd \o rl_in.base_dir \o <<name>>,
       SubSeq(ParsedLemsFile, 1, Len(ParsedLemsFile) - 1) \o <<name>>,
       Cwd \o <<name>>,
       Cwd \o <<"NeuroML2", "results", name>> >>

\* C5 (the claim as stated): an OutputFile with a bare name is loaded from
\* the first that exists of base_dir/name, <directory of the parsed LEMS
\* file>/name, cwd/name, cwd/NeuroML2/results/name, and OSError is raised if
\* and only if none exists, also when the LEMS file was found only under
\* base_dir.
C5_OutputFileFoundInOrder ==
    \A k \in 1..Len(rl_sim.outputs) :
        OutputProcessed(k) =>
            LET c  == C5Candidates(rl_sim.outputs[k].fileName)
                ex == {i \in 1..Len(c) : c[i] \in DOMAIN rl_fs0}
            IN IF ex = {}
               THEN OutputRaised(k, "OSError")
               ELSE /\ ~OutputRaised(k, "OSError")
                    /\ OutputLoadedFrom(k, c[CHOOSE i \in ex : \A j \in ex : i <= j])

\* C6 (the claim as stated): with reload_events set, an EventOutputFile is
\* loaded only if it was modified strictly later than t_run; no event list
\* is filled from a file that predates the run.
C6_StaleEventFileNeverLoaded ==
    \A i \in 1..Len(rl_loaded) :
        rl_loaded[i].kind = "event" => rl_loaded[i].mtime > rl_in.t_run

\* the output file loaded last
LastLoaded == rl_loaded[Len(rl_loaded)]

\* an output file was the last file loaded, so that traces is as its load
\* left it
JustLoadedOutput == rl_loaded # <<>> /\ LastLoaded.kind = "output"

\* the columns of a loaded file as C7 gives them: 't', then the quantities
\* in declaration order
C7Columns(f) == [k \in 1..(Len(f.cols) + 1) |-> IF k = 1 THEN "t" ELSE f.cols[k - 1]]

\* every row has one value for the time and for every declared column
WellFormed(f) == \A r \in 1..Len(f.rows) : Len(f.rows[r]) = Len(f.cols) + 1

\* 't' and the declared quantities are pairwise distinct
DistinctColumns(f) ==
    \A j, k \in 1..(Len(f.cols) + 1) : j # k => C7Columns(f)[j] # C7Columns(f)[k]

\* the k-th values of the rows that have one, in row order
ColumnValues(rows, k) ==
    LET rs == SelectSeq(rows, LAMBDA row : Len(row) >= k)
    IN [r \in 1..Len(rs) |-> rs[r][k]]

\* C7 (the claim as stated): after loading a file whose rows all have one
\* value per declared column plus time, the 't' list and each of that
\* file's quantity lists have the length of the file's row count.
C7_ColumnsHaveRowCount ==
    (JustLoadedOutput /\ WellFormed(LastLoaded)) =>
        \A k \in 1..(Len(LastLoaded.cols) + 1) :
            Len(rl_traces[C7Columns(LastLoaded)[k]]) = Len(LastLoaded.rows)

\* C7 (amended): after loading a file whose declared quantities are pairwise
\* distinct and none of them 't', the list of the k-th column ('t' first,
\* then the quantities in declaration order) holds the k-th value of every
\* row that has one, in row order; if moreover every row has one value per
\* declared column plus time, every one of these lists has the length of the
\* file's row count.
C7_DistinctColumnsHaveRowCount ==
    (JustLoadedOutput /\ DistinctColumns(LastLoaded)) =>
        /\ \A k \in 1..(Len(LastLoaded.cols) + 1) :
              rl_traces[C7Columns(LastLoaded)[k]] = ColumnValues(LastLoaded.rows, k)
        /\ WellFormed(LastLoaded) =>
              \A k \in 1..(Len(LastLoaded.cols) + 1) :
                  Len(rl_traces[C7Columns(LastLoaded)[k]]) = Len(LastLoaded.rows)

\* C7 witness: a file of two rows with columns v and u was loaded, and the
\* lists of t, v and u hold two values each
C7_Witness ==
    /\ JustLoadedOutput
    /\ LastLoaded.cols = <<"v", "u">>
    /\ Len(LastLoaded.rows) = 2
    /\ WellFormed(LastLoaded)
    /\ Len(rl_traces["t"]) = 2 /\ Len(rl_traces["v"]) = 2 /\ Len(rl_traces["u"]) = 2

C9Fns == {"jneuroml", "jneuroml_neuron", "jneuroml_netpyne"}

\* s is an initial part of t
IsPrefix(s, t) == Len(s) <= Len(t) /\ \A i \in 1..Len(s) : s[i] = t[i]

\* the run ended in failure without the process exiting
RunFailed == r_exec.called /\ r_exec.res.kind = "return" /\ r_exec.res.value.v = "False"

\* the run ended in success
RunSucceeded == r_exec.called /\ r_exec.res.kind = "return" /\ r_exec.res.value.v = "True"

\* C9 (the claim as stated): the steps of a run occur in the order built,
\* t_run, execute, outcome, reload; reload_saved_data is called only after
\* the command finished successfully and only when load_saved_data is set,
\* with the t_run taken before execution; a failed run with
\* exit_on_fail=False returns a failure value without reloading.
C9_ReloadOnlyAfterSuccessfulCommand ==
    r_fn \in C9Fns =>
        /\ IsPrefix(r_trace, <<"built", "t_run", "execute", "outcome", "reload">>)
        /\ r_reload.called =>
              /\ r_args.load_saved_data
              /\ RunSucceeded
              /\ r_reload.t_run = r_t_run
              /\ r_t_run < r_exec.at /\ r_exec.at < r_reload.at
        /\ (RunFailed /\ r_pc = "done") =>
              /\ ~r_reload.called
              /\ r_result \in {Return(Scalar("False")), Return(Pair("False", r_exec.out))}

\* C9 (amended): the steps of a run occur in the order built, t_run,
\* execute, outcome, reload, a run with skip_run set leaving out execute and
\* outcome; the command executed is the one built and starts after t_run is
\* taken; reload_saved_data is called only when load_saved_data is set, with
\* the t_run taken before, and, unless skip_run is set, only after the
\* command finished successfully; a failed run with exit_on_fail=False
\* returns a failure value without reloading.
C9_RunOrder ==
    r_fn \in C9Fns =>
        /\ IsPrefix(r_trace, IF r_args.skip_run
                             THEN <<"built", "t_run", "reload">>
                             ELSE <<"built", "t_run", "execute", "outcome", "reload">>)
        /\ r_exec.called =>
              /\ ~r_args.skip_run
              /\ r_exec.cmd = post_args(r_fn, r_args)
              /\ 0 < r_t_run /\ r_t_run < r_exec.at
        /\ r_reload.called =>
              /\ r_args.load_saved_data
              /\ r_reload.t_run = r_t_run
              /\ 0 < r_t_run /\ r_t_run < r_reload.at
              /\ r_args.skip_run \/ (RunSucceeded /\ r_exec.at < r_reload.at)
        /\ (RunFailed /\ r_pc = "done") =>
              /\ ~r_reload.called
              /\ r_result \in {Return(Scalar("False")), Return(Pair("False", r_exec.out))}

\* C9 witness: run_lems_with_jneuroml_netpyne has reloaded the data after a
\* command that succeeded
C9_Witness ==
    /\ r_fn = "jneuroml_netpyne"
    /\ RunSucceeded
    /\ r_reload.called
    /\ r_trace = <<"built", "t_run", "execute", "outcome", "reload">>

\* C10 (the claim as stated): a jNeuroML engine function called with
\* skip_run=True executes no command and ends with a success result: True,
\* (True, output) when return_string is set, or the reload of the saved
\* data when load_saved_data is set.
C10_SkipRunSucceeds ==
    (r_args.skip_run /\ r_pc = "done") =>
        /\ ~r_exec.called
        /\ IF r_args.load_saved_data THEN r_reload.called
           ELSE /\ r_result.kind = "return"
                /\ r_result.value.v = "True"
                /\ r_result.value.form = IF r_args.return_string THEN "pair" ELSE "scalar"

\* C11 (the claim as stated): run_lems_with_eden returns True when
\* load_saved_data is false, the results mapping alone when load_saved_data
\* is true and reload_events false, and the pair (results, {}) with the
\* warning that event saving is unsupported only when reload_events is true.
C11_EdenReturnForms ==
    (e_pc = "done" /\ e_result.kind = "return") =>
        LET warned == \E i \in 1..Len(e_log) : e_log[i].level = "warning" IN
        IF ~e_args.load_saved_data
        THEN e_result = EdenTrue /\ ~warned
        ELSE IF ~e_args.reload_events
        THEN e_result = EdenMapping(e_results) /\ ~warned
        ELSE e_result = EdenPair(e_results, EmptyDict) /\ warned

\* the -I options of a command line
IncludeOptions(cmd) == SelectSeq(cmd, LAMBDA o : o.opt = "-I")

\* val is d1:...:dn for the directories dirs
IsColonJoined(val, dirs) ==
    /\ Len(val) = 2 * Len(dirs) - 1
    /\ \A i \in 1..Len(dirs) : val[2 * i - 1] = dirs[i]
    /\ \A i \in 1..(Len(dirs) - 1) : val[2 * i] = ":"

HasParentReference(list) ==
    \E k \in 1..Len(list) : \E i \in 1..Len(list[k]) : list[k][i] = ".."

\* the call got as far as the model file list
GenListed == g_pc \in {"copy", "run", "move"} \/ (g_pc = "done" /\ g_result # GenNoResult
                 /\ g_tdir /\ ~has_parts(g_in.lems_file_name))

\* C13 (the claim as stated): generate_sim_scripts_in_folder raises
\* ValueError if any file of the model file list holds a parent-directory
\* reference, and when it raises no model file has been copied into the
\* temporary directory, wherever the offending file is in the list.
C13_ParentReferenceRaisesBeforeAnyCopy ==
    /\ (g_pc = "done" /\ GenListed /\ HasParentReference(g_env.model_file_list)
            /\ g_env.copy_fails_at = 0) =>
          g_result = GenRaise("ValueError")
    /\ (g_pc = "done" /\ g_result = GenRaise("ValueError")) => g_copied = <<>>

\* C14 (the claim as stated): when a call of generate_sim_scripts_in_folder
\* has ended, by return, by an error raised or by process exit, the current
\* working directory is the one before the call.
C14_WorkingDirectoryRestored ==
    g_pc = "done" => g_cwd = Cwd

\* C15 (the claim as stated): when run_lems_with_jneuroml_brian2 has ended,
\* by return, by an error raised or by process exit, sys.argv holds the
\* argument list it held when the call began, whatever that list was.
C15_ArgvRestored ==
    (r_fn = "jneuroml_brian2" /\ r_pc = "done") => r_argv = r_argv0

\* the place of the first e in a trace, 0 if there is none
FirstIndex(trace, e) ==
    IF \E i \in 1..Len(trace) : trace[i] = e
    THEN CHOOSE i \in 1..Len(trace) : trace[i] = e /\ \A j \in 1..(i - 1) : trace[j] # e
    ELSE 0

\* C16: when a KeyboardInterrupt arrives after the child process has been
\* started, the child is killed before the interruption goes to the caller
\* (no child is left running), and run_jneuroml_with_realtime_output raises
\* the interruption again: it neither returns False nor exits the process.
C16_InterruptKillsChildThenPropagates ==
    (x_int \in {"reading", "waiting", "check"}) =>
        /\ x_child \in {"killed", "exited"}
        /\ x_int \in {"reading", "waiting"} =>
              /\ x_child = "killed"
              /\ 0 < FirstIndex(x_trace, "kill")
              /\ FirstIndex(x_trace, "kill") < FirstIndex(x_trace, "raise")
        /\ x_inner = RtRaise("KeyboardInterrupt")
        /\ x_pc = "done" => x_result = RtRaise("KeyboardInterrupt")

\* C16 witness: the interruption came while the child's second line was
\* awaited; the child was killed and the interruption raised to the caller
C16_Witness ==
    /\ x_pc = "done"
    /\ x_int = "reading"
    /\ x_lines = 1
    /\ x_child = "killed"
    /\ x_in.exit_on_fail
    /\ x_result = RtRaise("KeyboardInterrupt")

\* the image files written by the plot
PlotSaved == { p_out[i].file : i \in { j \in 1..Len(p_out) : p_out[j].act = "save" } }

\* C17: plot_2D, once the model file is read, ends a call whose plane2d is not
\* one of xy, yx, xz, zx, yz, zy with exit status -1, with no segment drawn
\* and no image written, whatever save_to_file is; with one of the six
\* values it returns, and has written save_to_file exactly when one is given
C17_InvalidPlaneExitsBeforeDrawing ==
    (p_in.renderer = "plot_2D" /\ p_in.readable) =>
        IF p_in.plane2d \in {"xy", "yx", "xz", "zx", "yz", "zy"}
        THEN p_pc = "done" =>
                /\ p_result = PlotReturn
                /\ PlotSaved = (IF p_in.save_to_file \in {"None", ""} THEN {}
                                ELSE {p_in.save_to_file})
        ELSE /\ p_drawn = <<>>
             /\ PlotSaved = {}
             /\ p_pc = "done" => p_result = PlotExit(-1)

C17_Witness ==
    /\ p_pc = "done"
    /\ p_in.renderer = "plot_2D"
    /\ p_in.plane2d = "qq"
    /\ p_in.save_to_file = "out.png"
    /\ Len(p_in.segs) > 0
    /\ p_result = PlotExit(-1)
    /\ p_drawn = <<>>

\* the drawings made for segment k
DrawnFor(k) == { p_drawn[i] : i \in { j \in 1..Len(p_drawn) : p_drawn[j].seg = k } }

\* C18: plot_2D draws a segment with width min_width when the mean of its
\* two diameters is below min_width and with that mean otherwise; the naive
\* web renderer draws no segment narrower than its min_width
C18_WidthNeverBelowMinWidth ==
    \A i \in 1..Len(p_drawn) :
        LET seg == p_in.segs[p_drawn[i].seg]
            mean2 == seg.p.diameter + seg.d.diameter
        IN /\ p_in.renderer = "plot_2D" =>
                /\ mean2 < p_in.min_width2 => p_drawn[i].width2 = p_in.min_width2
                /\ mean2 >= p_in.min_width2 => p_drawn[i].width2 = mean2
                /\ p_drawn[i].width2 >= p_in.min_width2
           /\ p_in.renderer = "plotly" => p_drawn[i].width2 >= p_in.min_width2

C18_Witness ==
    /\ p_in.renderer = "plot_2D"
    /\ p_in.min_width2 = 3
    /\ \E i, j \in 1..Len(p_drawn) :
          /\ p_in.segs[p_drawn[i].seg].p.diameter + p_in.segs[p_drawn[i].seg].d.diameter = 0
          /\ p_drawn[i].width2 = 3
          /\ p_in.segs[p_drawn[j].seg].p.diameter + p_in.segs[p_drawn[j].seg].d.diameter = 4
          /\ p_drawn[j].width2 = 4

\* C19: in every renderer a segment whose two points have equal x, y, z and
\* diameter is drawn as a round marker or a sphere surface, and every other
\* segment as a line or a frustum surface, a cylinder when its two diameters
\* are equal
C19_SphericalSegmentsDrawnRound ==
    \A k \in 1..Len(p_in.segs) :
        (DrawnFor(k) # {}) =>
            LET seg == p_in.segs[k]
                is_sphere == seg.p.x = seg.d.x /\ seg.p.y = seg.d.y /\ seg.p.z = seg.d.z
                                /\ seg.p.diameter = seg.d.diameter
            IN IF is_sphere
               THEN \E dr \in DrawnFor(k) :
                       \/ dr.kind \in {"scatter", "sphere_surface"}
                       \/ dr.kind = "line2d" /\ dr.cap = "round"
               ELSE /\ \A dr \in DrawnFor(k) : dr.kind \notin {"scatter", "sphere_surface"}
                    /\ \E dr \in DrawnFor(k) :
                          \/ dr.kind = "line3d"
                          \/ dr.kind = "line2d" /\ dr.cap = "butt"
                          \/ /\ dr.kind = "frustrum_surface"
                             /\ dr.resolution = 2 <=> seg.p.diameter = seg.d.diameter

\* C20: every job run_multiple_lems_with submits carries each positional
\* argument its sims_spec entry declares as the value of a parameter of the
\* function of its own, each keyword as the value of the parameter it names,
\* and the entry's key as lems_file_name
C20_DeclaredArgsAreBound ==
    \A j \in 1..Len(b_jobs) :
        LET sim == b_sims[j]
            a   == b_jobs[j].args
        IN /\ \A i \in 1..Len(sim.args) :
                 \E q \in DOMAIN a : a[q] = [src |-> "arg", val |-> <<sim.args[i]>>]
           /\ \A kw \in sim.kwargs \cap DOMAIN a : a[kw] = [src |-> "kwargs", val |-> <<kw>>]
           /\ "lems_file_name" \in DOMAIN a =>
                 a["lems_file_name"] = [src |-> "sim", val |-> <<sim.name>>]

\* C21: plot_2D draws a segment in the population's colour if it has one,
\* else in 'g' if the segment is in soma_group, else in 'r' if it is in
\* axon_group, else in 'b'; a segment in both groups is drawn in 'g'
C21_ColourPriority ==
    p_in.renderer = "plot_2D" =>
        \A k \in 1..Len(p_color) :
            p_color[k] = IF p_opt.pop_color # "none" THEN p_opt.pop_color
                         ELSE IF k \in p_opt.soma_segs THEN "g"
                         ELSE IF k \in p_opt.axon_segs THEN "r"
                         ELSE "b"

\* C22: with square=True the x limits and the y limits plot_2D leaves span
\* the same length, whatever the autoscaled view
C22_SquareSpansEqual ==
    (p_pc = "done" /\ p_result = PlotReturn /\ p_in.renderer = "plot_2D" /\ p_opt.square) =>
        Span(p_lim.x) = Span(p_lim.y)

\* path is one of the entries of the colon-separated list s
IsEntry(path, s) ==
    \E i \in 1..(Len(s) + 1) :
        LET j == i + Len(path) - 1 IN
        /\ j <= Len(s)
        /\ SubSeq(s, i, j) = path
        /\ i = 1 \/ s[i - 1] = ":"
        /\ j = Len(s) \/ s[j + 1] = ":"

\* C23: once run_lems_with_jneuroml_neuron has prepared a run (skip_run
\* false), PYTHONPATH is set and every entry of sys.path is one of its
\* colon-separated entries
C23_SysPathInPythonPath ==
    \A c \in 1..Len(r_calls) :
        (r_fn = "jneuroml_neuron" /\ ~r_calls[c].skip_run) =>
            /\ r_calls[c].environ.set
            /\ \A i \in 1..Len(r_syspath) : IsEntry(r_syspath[i], r_calls[c].environ.val)

\* what os.environ held before call c
EnvironBefore(c) == IF c = 1 THEN r_environ0 ELSE r_calls[c - 1].environ

\* C30: a call of run_lems_with_jneuroml_neuron that follows one with
\* skip_run false leaves PYTHONPATH as it found it, and so does every call
\* with skip_run true
C30_PythonPathFixIdempotent ==
    r_fn = "jneuroml_neuron" =>
        \A c \in 1..Len(r_calls) :
            (r_calls[c].skip_run \/ \E b \in 1..(c - 1) : ~r_calls[b].skip_run) =>
                r_calls[c].environ = EnvironBefore(c)

C30_Witness ==
    /\ r_fn = "jneuroml_neuron"
    /\ Len(r_calls) = 2
    /\ ~r_calls[1].skip_run /\ ~r_calls[2].skip_run
    /\ r_environ0.set /\ r_environ0.val = Str_b
    /\ r_syspath = <<Str_a_lib, Str_lib>>
    /\ r_calls[1].environ # r_environ0
    /\ r_calls[2].environ = r_calls[1].environ

\* C24: for two distinct centres get_frustrum_surface picks an auxiliary
\* vector that is not parallel to the axis: its cross product with the axis
\* is not zero, and the two vectors derived from it are defined, not zero,
\* perpendicular to the axis and perpendicular to each other
C24_AuxiliaryVectorNotParallel ==
    (f_pc = "done" /\ f_in.p_proximal # f_in.p_distal) =>
        /\ cross(f_out.axis, f_out.somev) # ZeroVector
        /\ ~f_out.nan
        /\ f_out.perpv1 # ZeroVector /\ f_out.perpv2 # ZeroVector
        /\ dot(f_out.perpv1, f_out.axis) = 0
        /\ dot(f_out.perpv2, f_out.axis) = 0
        /\ dot(f_out.perpv1, f_out.perpv2) = 0

\* the steps of the call so far include step
InTrace(step) == \E i \in 1..Len(r_trace) : r_trace[i] = step

\* C25: run_lems_with_jneuroml_brian2 rewrites sys.argv and imports the
\* generated module only when the jnml run has returned success; after a
\* run that failed without exiting, nothing is imported and False is
\* returned
C25_ImportOnlyAfterSuccess ==
    r_fn = "jneuroml_brian2" =>
        /\ (InTrace("argv") \/ InTrace("import")) =>
              (r_exec.called /\ r_exec.res.kind = "return" /\ r_exec.res.value.v = "True")
        /\ (RunFailed /\ r_pc = "done") =>
              (r_result = Return(Scalar("False")) /\ ~InTrace("import"))

\* C26: with exit_on_fail set, a jnml command that ends with a return code
\* other than 0 ends the process, with realtime output as with captured
\* output: the engine function gets no value back, False least of all
C26_RealtimeFailureExits ==
    (r_exec.called /\ r_args.exit_on_fail /\ r_exec.rc # 0) =>
        /\ r_exec.res.kind = "exit"
        /\ r_pc = "done" => r_result.kind = "exit"

\* C27: a call of run_lems_with calls at most one engine function, and the
\* one it calls for engine e is named run_lems_with_<e>
C27_AtMostOneEngineFunction ==
    /\ Len(d_called) <= 1
    /\ \A c \in 1..Len(d_called) :
          function_tuple[d_called[c]] = RunLemsWithPrefix \o <<"_">> \o d_engine

\* the output files loaded so far
LoadedOutputs == SelectSeq(rl_loaded, LAMBDA f : f.kind = "output")

\* C28: when every output file has one value per declared column plus time
\* on every line, and distinct quantities none of which is 't', the mapping
\* reload_saved_data returns has a 't' list as long as each quantity list,
\* whatever the numbers of lines of the files
C28_TimeAsLongAsEveryQuantity ==
    (/\ rl_pc = "done" /\ rl_result.kind = "return"
     /\ \A k \in 1..Len(LoadedOutputs) :
           WellFormed(LoadedOutputs[k]) /\ DistinctColumns(LoadedOutputs[k])) =>
        \A q \in DOMAIN rl_result.traces :
            Len(rl_result.traces[q]) = Len(rl_result.traces["t"])

\* C29: when generate_sim_scripts_in_folder turns its input away, for an
\* engine it does not support or a lems_file_name with directories in it, no
\* temporary directory has been made and nothing has been copied
C29_RejectedInputLeavesNoDirectory ==
    (g_pc # "off" /\ (g_in.engine \notin {"jneuroml_neuron", "jneuroml_netpyne"}
                      \/ Len(g_in.lems_file_name) > 1)) =>
        /\ ~g_tdir
        /\ g_dirs = {}
        /\ g_copied = <<>>
        /\ g_pc = "done" => g_result.kind \in {"return", "raise"}

=============================================================================
